---- MODULE Spec2Model ----
(***************************************************************************)
(* A model of the shadowfax HTTP/1.1 server: the response writer, the      *)
(* per-connection handler and the router.  Text is modelled as sequences   *)
(* of one-character strings, so that formatting, case folding, trimming    *)
(* and splitting are computed and not assumed.                             *)
(***************************************************************************)
EXTENDS Integers, Sequences, FiniteSets, TLC

VARIABLES
    \* ---- response writer (package response) ----
    wresp,      \* the response value under test: StatusCode, Headers, Body
    rw,         \* a ResponseWriter driven operation by operation
    sink,       \* the io.Writer behind rw
    wcall,      \* the last operation called on rw, with the state before it
    out,        \* the io.Writer handed to BaseResponse.Write
    wsnap,      \* the response as it was when Write was last called
    wret,       \* what the last BaseResponse.Write returned
    \* ---- connection handler (Server.handle) ----
    opts,       \* ServerOpts: KeepAliveTimeout
    pc,         \* where handle is: "read", "handle", "write" or "done"
    reqNo,      \* the number of requests read from the connection so far
    req,        \* the request of the current cycle
    resp,       \* the response of the current cycle
    shouldCloseConn,
    conn,       \* the connection: closed, and its write side
    log,        \* what handle has done, in order
    cyc,        \* how the current cycle went
    lastResp,   \* the response value last handed to Write
    written,    \* the bytes that Write put on the connection
    \* ---- router (package router) ----
    router,     \* the Router: trees, notFoundHandler, middlewares, cors
    routes,     \* the method and path of every route registered so far
    composite,  \* what Handler() returned, if it has been called
    rpc,        \* "idle", or "returned" while a call of the composite is looked at
    rreq,       \* the request the composite handler was last called with
    rres,       \* how that call went
    \* ---- route tree (package internal/router) ----
    trie,       \* the root TrieNode of one tree
    tadded,     \* the paths given to AddRoute, in order
    lookup,     \* the last call of Match: its path and what it returned
    \* ---- header collection (package headers) ----
    hdrs,       \* one Headers value
    hlog,       \* the name and value of every Add so far, in order
    hcall,      \* the last call on hdrs
    \* ---- stream response (package response) and chunked reader (package request) ----
    prod,       \* the stream function: the steps it has taken, what it returned
    sent,       \* the byte slices the stream function has written, in order
    pipe,       \* the io.Pipe: the write that waits for a reader, how it was closed
    trailers,   \* StreamResponse.Trailers
    cr,         \* the response-side chunkedReader: buf and eof
    wire,       \* the bytes the consumer has read from the chunkedReader
    rdone,      \* the error that ended the consumer's reading, "nil" before
    dec,        \* what the request-side Decode made of the bytes of wire
    \* ---- request parser (package request) ----
    rin,        \* the bytes a reader gives: the parts they are made of
    preq,       \* what RequestFromReader returned for them
    pbody,      \* what Body() returned for that request
    \* ---- one kept-alive connection as a byte stream (packages request, server) ----
    kin,        \* the requests the client sends, one after the other, then EOF
    kpos,       \* the number of bytes taken from the connection so far
    kreq,       \* what RequestFromReader returned in the current cycle
    kbody,      \* the bodyReader the handler got from Body()
    kcyc,       \* the request cycles that are over, in order
    kpc,        \* "parse", "handle", or "done" when the connection is given up
    \* ---- the accept loop and Close (package server) ----
    srv,        \* the Server value: the closed mark and the state of its listener
    lpc,        \* where the goroutine of listen is
    lcause,     \* why the last Accept failed, "" when it has not
    lret,       \* what listen returned
    cpc,        \* where the caller of Close is
    accepted    \* the connections that were accepted, in order

wvars == <<wresp, rw, sink, wcall, out, wsnap, wret>>

svars == <<opts, pc, reqNo, req, resp, shouldCloseConn, conn, log, cyc, lastResp, written>>

rvars == <<router, routes, composite, rpc, rreq, rres>>

tvars == <<trie, tadded, lookup>>

hvars == <<hdrs, hlog, hcall>>

cvars == <<prod, sent, pipe, trailers, cr, wire, rdone, dec>>

qvars == <<rin, preq, pbody>>

kvars == <<kin, kpos, kreq, kbody, kcyc, kpc>>

lvars == <<srv, lpc, lcause, lret, cpc, accepted>>

\* the variables of the parts that are driven on their own
xvars == <<tvars, hvars, cvars, qvars, kvars, lvars>>

\* all variables but those of one such part
notTrie == <<wvars, svars, rvars, hvars, cvars, qvars, kvars, lvars>>

notHeaders == <<wvars, svars, rvars, tvars, cvars, qvars, kvars, lvars>>

notStream == <<wvars, svars, rvars, tvars, hvars, qvars, kvars, lvars>>

notRequest == <<wvars, svars, rvars, tvars, hvars, cvars, kvars, lvars>>

notKept == <<wvars, svars, rvars, tvars, hvars, cvars, qvars, lvars>>

notListen == <<wvars, svars, rvars, tvars, hvars, cvars, qvars, kvars>>

vars == <<wresp, rw, sink, wcall, out, wsnap, wret,
          opts, pc, reqNo, req, resp, shouldCloseConn, conn, log, cyc, lastResp, written,
          router, routes, composite, rpc, rreq, rres,
          trie, tadded, lookup,
          hdrs, hlog, hcall,
          prod, sent, pipe, trailers, cr, wire, rdone, dec,
          rin, preq, pbody,
          kin, kpos, kreq, kbody, kcyc, kpc,
          srv, lpc, lcause, lret, cpc, accepted>>

Nil == "nil"

----------------------------------------------------------------------------
\* Bounds of the model.

\* the largest number of sink writes that succeed before a sink breaks
MaxSinkWrites == 3

\* the largest number of requests a client sends on one connection
MaxRequests == 2

\* the largest number of routes registered with a router
MaxRoutes == 2

\* the largest number of routes added to the tree that is driven on its own
MaxTrieRoutes == 3

\* the largest number of calls of Add on the Headers value driven on its own
MaxHeaderAdds == 3

\* the largest number of writes and trailer settings of a stream function
MaxStreamSteps == 4

\* the largest number of field lines of a request given to the parser
MaxFieldLines == 2

\* the most bytes the chunkedReader takes from the pipe in one read: the
\* length of raw, 4096 in the source
RawSize == 12

\* the largest number of middlewares added to a router
MaxMiddlewares == 2

----------------------------------------------------------------------------
\* Text helpers (package strings).

S_HTTP11 == <<"H", "T", "T", "P", "/", "1", ".", "1">>
S_OK == <<"O", "K">>
S_NoContent == <<"N", "o", " ", "C", "o", "n", "t", "e", "n", "t">>
S_NotModified == <<"N", "o", "t", " ", "M", "o", "d", "i", "f", "i", "e", "d">>
S_BadRequest == <<"B", "a", "d", " ", "R", "e", "q", "u", "e", "s", "t">>
S_NotFound == <<"N", "o", "t", " ", "F", "o", "u", "n", "d">>
S_MethodNotAllowed == <<"M", "e", "t", "h", "o", "d", " ", "N", "o", "t", " ", "A", "l", "l", "o", "w", "e", "d">>
S_InternalServerError == <<"I", "n", "t", "e", "r", "n", "a", "l", " ", "S", "e", "r", "v", "e", "r", " ", "E", "r", "r", "o", "r">>
S_text_plain == <<"t", "e", "x", "t", "/", "p", "l", "a", "i", "n">>
S_content_type == <<"c", "o", "n", "t", "e", "n", "t", "-", "t", "y", "p", "e">>
S_content_length == <<"c", "o", "n", "t", "e", "n", "t", "-", "l", "e", "n", "g", "t", "h">>

CRLF == <<"\r", "\n">>

UpperChars == <<"A", "B", "C", "D", "E", "F", "G", "H", "I", "J", "K", "L", "M",
                "N", "O", "P", "Q", "R", "S", "T", "U", "V", "W", "X", "Y", "Z">>
LowerChars == <<"a", "b", "c", "d", "e", "f", "g", "h", "i", "j", "k", "l", "m",
                "n", "o", "p", "q", "r", "s", "t", "u", "v", "w", "x", "y", "z">>
DigitChars == <<"0", "1", "2", "3", "4", "5", "6", "7", "8", "9">>

Range(s) == {s[i] : i \in DOMAIN s}

LowerChar(c) ==
    IF \E i \in DOMAIN UpperChars : UpperChars[i] = c
    THEN LowerChars[CHOOSE i \in DOMAIN UpperChars : UpperChars[i] = c]
    ELSE c

UpperChar(c) ==
    IF \E i \in DOMAIN LowerChars : LowerChars[i] = c
    THEN UpperChars[CHOOSE i \in DOMAIN LowerChars : LowerChars[i] = c]
    ELSE c

\* strings.ToLower / strings.ToUpper
ToLower(s) == [i \in DOMAIN s |-> LowerChar(s[i])]
ToUpper(s) == [i \in DOMAIN s |-> UpperChar(s[i])]

\* strconv.Itoa, and the %d verb of fmt, for a non-negative integer
RECURSIVE Itoa(_)
Itoa(n) == IF n < 10 THEN <<DigitChars[n + 1]>>
           ELSE Itoa(n \div 10) \o <<DigitChars[(n % 10) + 1]>>

\* the characters strings.TrimSpace removes that occur in this model
IsSpace(c) == c \in {" ", "\t", "\r", "\n"}

RECURSIVE TrimLeftSpace(_)
TrimLeftSpace(s) == IF s # <<>> /\ IsSpace(Head(s)) THEN TrimLeftSpace(Tail(s)) ELSE s

RECURSIVE TrimRightSpace(_)
TrimRightSpace(s) == IF s # <<>> /\ IsSpace(s[Len(s)])
                     THEN TrimRightSpace(SubSeq(s, 1, Len(s) - 1)) ELSE s

\* strings.TrimSpace
TrimSpace(s) == TrimRightSpace(TrimLeftSpace(s))

\* strings.Split(s, sep) for a one-character separator: never empty, "" gives <<"">>
RECURSIVE SplitAcc(_, _, _)
SplitAcc(s, sep, cur) ==
    IF s = <<>> THEN <<cur>>
    ELSE IF Head(s) = sep THEN <<cur>> \o SplitAcc(Tail(s), sep, <<>>)
    ELSE SplitAcc(Tail(s), sep, Append(cur, Head(s)))

Split(s, sep) == SplitAcc(s, sep, <<>>)

\* strings.Trim(s, "/") for a one-character cutset
RECURSIVE TrimLeftChar(_, _)
TrimLeftChar(s, c) == IF s # <<>> /\ Head(s) = c THEN TrimLeftChar(Tail(s), c) ELSE s

RECURSIVE TrimRightChar(_, _)
TrimRightChar(s, c) == IF s # <<>> /\ s[Len(s)] = c
                       THEN TrimRightChar(SubSeq(s, 1, Len(s) - 1), c) ELSE s

Trim(s, c) == TrimRightChar(TrimLeftChar(s, c), c)

\* strings.Join(parts, sep)
RECURSIVE Join(_, _)
Join(parts, sep) ==
    IF parts = <<>> THEN <<>>
    ELSE IF Len(parts) = 1 THEN parts[1]
    ELSE parts[1] \o sep \o Join(Tail(parts), sep)

\* all orders in which the elements of a finite set can be enumerated
RECURSIVE Orders(_)
Orders(S) == IF S = {} THEN {<<>>}
             ELSE UNION {{<<x>> \o o : o \in Orders(S \ {x})} : x \in S}

IsPrefix(p, s) == Len(p) <= Len(s) /\ SubSeq(s, 1, Len(p)) = p

----------------------------------------------------------------------------
\* Header collection (package headers).

\* the octets of an RFC 9110 token (the backquote never occurs in this model)
TokenChars == Range(UpperChars) \cup Range(LowerChars) \cup Range(DigitChars)
              \cup {"!", "#", "$", "%", "&", "'", "*", "+", "-", ".", "^", "_", "|", "~"}

isValidFieldName(key) == key # <<>> /\ \A i \in DOMAIN key : key[i] \in TokenChars

\* DEL (0x7F) and an octet of obs-text (0xE9), each one element of a text
DEL == "<7F>"
OBS == "<E9>"

\* of the octets below 0x20 only HTAB, LF and CR occur in this model
validHeaderValueByte(c) == c \notin {"\r", "\n", DEL}

isValidFieldValue(val) == \A i \in DOMAIN val : validHeaderValueByte(val[i])

normalizeKey(key) == ToLower(key)

NewHeaders == << >>

\* Get that reads the map under the key as it was given
HeadersGet_AsGiven(h, key) == IF key \in DOMAIN h THEN h[key] ELSE <<>>

\* a Go map read: the zero value "" for a missing key
HeadersGet(h, key) == IF normalizeKey(key) \in DOMAIN h THEN h[normalizeKey(key)] ELSE <<>>

MapPut(h, k, v) == [x \in DOMAIN h \cup {k} |-> IF x = k THEN v ELSE h[x]]

HeadersSet(h, key, value) == MapPut(h, normalizeKey(key), value)

\* Add that does not look at the value before it stores it
HeadersAdd_AnyValue(h, key, value) ==
    IF ~isValidFieldName(key) THEN h
    ELSE LET k == normalizeKey(key) IN
         IF k \in DOMAIN h THEN MapPut(h, k, h[k] \o <<",", " ">> \o value)
         ELSE MapPut(h, k, value)

HeadersAdd(h, key, value) ==
    IF ~isValidFieldName(key) \/ ~isValidFieldValue(value) THEN h
    ELSE LET k == normalizeKey(key) IN
         IF k \in DOMAIN h THEN MapPut(h, k, h[k] \o <<",", " ">> \o value)
         ELSE MapPut(h, k, value)

HeadersSize(h) == Cardinality(DOMAIN h)

HeadersRemove(h, key) == [x \in DOMAIN h \ {normalizeKey(key)} |-> h[x]]

----------------------------------------------------------------------------
\* Status codes and reason phrases (package response).

StatusOK == 200
StatusNoContent == 204
StatusNotModified == 304
StatusBadRequest == 400
StatusNotFound == 404
StatusMethodNotAllowed == 405
StatusInternalServerError == 500

\* a Go map read: the zero value "" for a code without a phrase
GetStatusReason(s) ==
    CASE s = StatusOK -> S_OK
      [] s = StatusNoContent -> S_NoContent
      [] s = StatusNotModified -> S_NotModified
      [] s = StatusBadRequest -> S_BadRequest
      [] s = StatusNotFound -> S_NotFound
      [] s = StatusMethodNotAllowed -> S_MethodNotAllowed
      [] s = StatusInternalServerError -> S_InternalServerError
      [] OTHER -> <<>>

----------------------------------------------------------------------------
\* Responses (BaseResponse, TextResponse).  Body is the nil reader or a
\* reader holding the bytes it has not yet delivered.

NilBody == [nil |-> TRUE, data |-> <<>>]
Reader(b) == [nil |-> FALSE, data |-> b]

NewBaseResponse == [StatusCode |-> 200, Headers |-> NewHeaders, Body |-> NilBody]

WithStatusCode(r, code) == [r EXCEPT !.StatusCode = code]
WithHeader(r, key, value) == [r EXCEPT !.Headers = HeadersAdd(r.Headers, key, value)]
WithBody(r, body) == [r EXCEPT !.Body = body]

\* WithHeaders adds every entry of a Go map; the keys are distinct, so the
\* order of the iteration does not show in the result
RECURSIVE AddAll(_, _, _)
AddAll(h, m, keys) ==
    IF keys = {} THEN h
    ELSE LET k == CHOOSE k \in keys : TRUE
         IN AddAll(HeadersAdd(h, k, m[k]), m, keys \ {k})

WithHeaders(r, m) == [r EXCEPT !.Headers = AddAll(r.Headers, m, DOMAIN m)]

NewTextResponse(body) ==
    WithBody(WithHeader(WithHeader(NewBaseResponse, S_content_type, S_text_plain),
                        S_content_length, Itoa(Len(body))), Reader(body))

----------------------------------------------------------------------------
\* The io.Writer behind a response.  A sink that has failed once keeps
\* failing, as a closed or timed-out connection does.  left is the number
\* of writes this sink still accepts in the current call, NoLimit for all,
\* and fails the number of writes it has refused in that call.

NoLimit == 0 - 1

NewSink == [data |-> <<>>, broken |-> FALSE, left |-> NoLimit, fails |-> 0]

\* one Write call on the sink: all of p, or an error and nothing
SinkWrite(s, p) ==
    IF s.broken \/ s.left = 0
    THEN [s |-> [s EXCEPT !.broken = TRUE, !.fails = @ + 1], err |-> TRUE]
    ELSE [s |-> [s EXCEPT !.data = s.data \o p,
                          !.left = IF s.left = NoLimit THEN NoLimit ELSE s.left - 1],
          err |-> FALSE]

\* the io.Writer as the caller of an operation finds it: k more writes succeed
Arm(s, k) == [s EXCEPT !.left = k, !.fails = 0]

\* the io.Writer as the operation leaves it to its caller
Disarm(s) == [s EXCEPT !.left = NoLimit]

Budgets == (0..MaxSinkWrites) \cup {NoLimit}

----------------------------------------------------------------------------
\* ResponseWriter and its state machine.

stateStatusLine == "status line"
stateHeaders == "headers"
stateBody == "body"
stateDone == "done"

newResponseState == stateStatusLine

\* advance as it would be with the headers state left out
advance_SkipsHeaders(rs) ==
    CASE rs = stateStatusLine -> stateBody
      [] rs = stateHeaders -> stateBody
      [] rs = stateBody -> stateDone
      [] OTHER -> "panic"

\* advance panics in stateDone; no caller reaches it there
advance(rs) ==
    CASE rs = stateStatusLine -> stateHeaders
      [] rs = stateHeaders -> stateBody
      [] rs = stateBody -> stateDone
      [] OTHER -> "panic"

NewResponseWriter == [state |-> newResponseState]

ErrStatusLineAlreadyWritten == "status line already written"
ErrHeadersAlreadyWritten == "headers already written"
ErrNoBodyState == "body already written"
ErrSink == "sink error"

\* WriteStatusLine that looks at the state after it has written
WriteStatusLine_WritesFirst(w, s, statusCode) ==
    LET r == SinkWrite(s, S_HTTP11 \o <<" ">> \o Itoa(statusCode) \o <<" ">>
                          \o GetStatusReason(statusCode) \o CRLF)
    IN IF w.state # stateStatusLine
       THEN [rw |-> w, sink |-> r.s, err |-> ErrStatusLineAlreadyWritten]
       ELSE IF r.err THEN [rw |-> w, sink |-> r.s, err |-> ErrSink]
       ELSE [rw |-> [w EXCEPT !.state = advance(w.state)], sink |-> r.s, err |-> Nil]

\* each operation yields the writer, the sink and the error (Nil for none)
WriteStatusLine(w, s, statusCode) ==
    IF w.state # stateStatusLine
    THEN [rw |-> w, sink |-> s, err |-> ErrStatusLineAlreadyWritten]
    ELSE LET r == SinkWrite(s, S_HTTP11 \o <<" ">> \o Itoa(statusCode) \o <<" ">>
                               \o GetStatusReason(statusCode) \o CRLF)
         IN IF r.err THEN [rw |-> w, sink |-> r.s, err |-> ErrSink]
            ELSE [rw |-> [w EXCEPT !.state = advance(w.state)], sink |-> r.s, err |-> Nil]

\* the header lines in the order the map iteration yields them; the results
\* of these writes are ignored
RECURSIVE WriteHeaderLines(_, _, _)
WriteHeaderLines(s, h, order) ==
    IF order = <<>> THEN s
    ELSE WriteHeaderLines(
            SinkWrite(s, Head(order) \o <<":", " ">> \o h[Head(order)] \o CRLF).s,
            h, Tail(order))

\* WriteHeaders as it would be without the blank line that ends the headers
WriteHeaders_NoBlankLine(w, s, h, order) ==
    IF w.state # stateHeaders
    THEN [rw |-> w, sink |-> s, err |-> ErrHeadersAlreadyWritten]
    ELSE [rw |-> [w EXCEPT !.state = advance(w.state)],
          sink |-> WriteHeaderLines(s, h, order),
          err |-> Nil]

WriteHeaders(w, s, h, order) ==
    IF w.state # stateHeaders
    THEN [rw |-> w, sink |-> s, err |-> ErrHeadersAlreadyWritten]
    ELSE [rw |-> [w EXCEPT !.state = advance(w.state)],
          sink |-> SinkWrite(WriteHeaderLines(s, h, order), CRLF).s,
          err |-> Nil]

\* io.Copy: the reader is drained chunk by chunk until a write fails.  It
\* yields the sink, the bytes left in the reader and whether a write failed.
RECURSIVE Copy(_, _)
Copy(s, b) ==
    IF b = <<>> THEN [s |-> s, rest |-> b, err |-> FALSE]
    ELSE LET r == SinkWrite(s, <<Head(b)>>)
         IN IF r.err THEN [s |-> r.s, rest |-> Tail(b), err |-> TRUE]
            ELSE Copy(r.s, Tail(b))

WriteBody(w, s, b) ==
    IF w.state # stateBody
    THEN [rw |-> w, sink |-> s, rest |-> b, err |-> ErrNoBodyState]
    ELSE LET c == Copy(s, b)
         IN IF c.err THEN [rw |-> w, sink |-> c.s, rest |-> c.rest, err |-> ErrSink]
            ELSE [rw |-> [w EXCEPT !.state = advance(w.state)],
                  sink |-> c.s, rest |-> c.rest, err |-> Nil]

\* Write as it would be if the body could be read again from its start
BaseResponseWrite_RewindsBody(r, s, order) ==
    LET a == WriteStatusLine(NewResponseWriter, s, r.StatusCode) IN
    IF a.err # Nil THEN [sink |-> a.sink, resp |-> r, err |-> a.err]
    ELSE LET b == WriteHeaders(a.rw, a.sink, r.Headers, order) IN
         IF b.err # Nil THEN [sink |-> b.sink, resp |-> r, err |-> b.err]
         ELSE IF ~r.Body.nil
              THEN LET c == WriteBody(b.rw, b.sink, r.Body.data)
                   IN [sink |-> c.sink, resp |-> r, err |-> c.err]
              ELSE [sink |-> b.sink, resp |-> r, err |-> Nil]

\* BaseResponse.Write on a fresh ResponseWriter: it yields the sink, the
\* response (its body reader drained as far as it was read) and the error
BaseResponseWrite(r, s, order) ==
    LET a == WriteStatusLine(NewResponseWriter, s, r.StatusCode) IN
    IF a.err # Nil THEN [sink |-> a.sink, resp |-> r, err |-> a.err]
    ELSE LET b == WriteHeaders(a.rw, a.sink, r.Headers, order) IN
         IF b.err # Nil THEN [sink |-> b.sink, resp |-> r, err |-> b.err]
         ELSE IF ~r.Body.nil
              THEN LET c == WriteBody(b.rw, b.sink, r.Body.data)
                   IN [sink |-> c.sink, resp |-> [r EXCEPT !.Body = Reader(c.rest)],
                       err |-> c.err]
              ELSE [sink |-> b.sink, resp |-> r, err |-> Nil]

----------------------------------------------------------------------------
\* Values the specifications share, and the response writer at rest.

H_x_test == <<"x", "-", "t", "e", "s", "t">>
V_no_body == <<"n", "o", "-", "b", "o", "d", "y">>
B_hi == <<"h", "i">>

NoCall == [op |-> "none", before |-> newResponseState, after |-> newResponseState,
           err |-> Nil, wrote |-> FALSE]

IdleWriter ==
    /\ wresp = NewBaseResponse
    /\ rw = NewResponseWriter
    /\ sink = NewSink
    /\ wcall = NoCall
    /\ out = NewSink
    /\ wsnap = NewBaseResponse
    /\ wret = "none"

----------------------------------------------------------------------------
\* Requests (package request).

S_GET == <<"G", "E", "T">>
S_HEAD == <<"H", "E", "A", "D">>
S_POST == <<"P", "O", "S", "T">>
S_PUT == <<"P", "U", "T">>
S_PATCH == <<"P", "A", "T", "C", "H">>
S_DELETE == <<"D", "E", "L", "E", "T", "E">>
S_TRACE == <<"T", "R", "A", "C", "E">>
S_OPTIONS == <<"O", "P", "T", "I", "O", "N", "S">>

\* the methods the request line may carry
Methods == {S_GET, S_POST, S_PUT, S_PATCH, S_OPTIONS, S_TRACE, S_DELETE, S_HEAD}

\* a request as RequestFromReader yields it: the field lines are added to
\* the header collection one by one
RECURSIVE ParsedHeaders(_, _)
ParsedHeaders(h, lines) ==
    IF lines = <<>> THEN h
    ELSE ParsedHeaders(HeadersAdd(h, Head(lines)[1], Head(lines)[2]), Tail(lines))

Request(method, target, lines) ==
    [err |-> FALSE, Method |-> method, Target |-> target,
     Headers |-> ParsedHeaders(NewHeaders, lines)]

\* RequestFromReader returned an error: malformed input, or the read failed
ParseError == [err |-> TRUE, Method |-> <<>>, Target |-> <<>>, Headers |-> NewHeaders]

NoRequest == [err |-> FALSE, Method |-> <<>>, Target |-> <<>>, Headers |-> NewHeaders]

----------------------------------------------------------------------------
\* The route tree (TrieNode).

\* a *TrieNode that is nil
NilNode == [nil |-> TRUE]

\* a server.Handler that is nil
NilHandler == [nil |-> TRUE, id |-> <<>>]

\* a handler of the application, known by the method and the path it is
\* registered under
UserHandler(method, path) == [nil |-> FALSE, id |-> <<method, path>>]

NewTrieNode ==
    [nil |-> FALSE, children |-> <<>>,
     paramChild |-> NilNode, paramName |-> <<>>,
     wildcardChild |-> NilNode, wildcardName |-> <<>>,
     handler |-> NilHandler]

\* the loop of AddRoute over the segments that are left
RECURSIVE AddSegments(_, _, _)
AddSegments(n, segments, handler) ==
    IF segments = <<>> THEN [n EXCEPT !.handler = handler]
    ELSE LET segment == Head(segments)
             rest == Tail(segments)
         IN IF segment = <<>> THEN AddSegments(n, rest, handler)
            ELSE IF Head(segment) = ":"
                 THEN LET child == IF n.paramChild.nil THEN NewTrieNode ELSE n.paramChild
                      IN [n EXCEPT !.paramName = Tail(segment),
                                   !.paramChild = AddSegments(child, rest, handler)]
            ELSE IF Head(segment) = "*"
                 THEN LET child == IF n.wildcardChild.nil THEN NewTrieNode
                                   ELSE n.wildcardChild
                      IN [n EXCEPT !.wildcardName = Tail(segment),
                                   !.wildcardChild = AddSegments(child, rest, handler)]
            ELSE LET child == IF segment \in DOMAIN n.children THEN n.children[segment]
                              ELSE NewTrieNode
                 IN [n EXCEPT !.children =
                         MapPut(n.children, segment, AddSegments(child, rest, handler))]

\* AddRoute that files every segment as a static child, ":name" included
RECURSIVE AddSegments_AllStatic(_, _, _)
AddSegments_AllStatic(n, segments, handler) ==
    IF segments = <<>> THEN [n EXCEPT !.handler = handler]
    ELSE LET segment == Head(segments)
             rest == Tail(segments)
         IN IF segment = <<>> THEN AddSegments_AllStatic(n, rest, handler)
            ELSE LET child == IF segment \in DOMAIN n.children THEN n.children[segment]
                              ELSE NewTrieNode
                 IN [n EXCEPT !.children =
                         MapPut(n.children, segment,
                                AddSegments_AllStatic(child, rest, handler))]

AddRoute_AllStatic(n, path, handler) ==
    AddSegments_AllStatic(n, Split(Trim(path, "/"), "/"), handler)

\* AddRoute that names a parameter slot only when it makes the slot
RECURSIVE AddSegments_FirstName(_, _, _)
AddSegments_FirstName(n, segments, handler) ==
    IF segments = <<>> THEN [n EXCEPT !.handler = handler]
    ELSE LET segment == Head(segments)
             rest == Tail(segments)
         IN IF segment = <<>> THEN AddSegments_FirstName(n, rest, handler)
            ELSE IF Head(segment) = ":"
                 THEN LET child == IF n.paramChild.nil THEN NewTrieNode ELSE n.paramChild
                      IN [n EXCEPT !.paramName = IF n.paramChild.nil THEN Tail(segment) ELSE @,
                                   !.paramChild = AddSegments_FirstName(child, rest, handler)]
            ELSE IF Head(segment) = "*"
                 THEN LET child == IF n.wildcardChild.nil THEN NewTrieNode
                                   ELSE n.wildcardChild
                      IN [n EXCEPT !.wildcardName = Tail(segment),
                                   !.wildcardChild = AddSegments_FirstName(child, rest, handler)]
            ELSE LET child == IF segment \in DOMAIN n.children THEN n.children[segment]
                              ELSE NewTrieNode
                 IN [n EXCEPT !.children =
                         MapPut(n.children, segment, AddSegments_FirstName(child, rest, handler))]

AddRoute_FirstName(n, path, handler) ==
    AddSegments_FirstName(n, Split(Trim(path, "/"), "/"), handler)

AddRoute(n, path, handler) == AddSegments(n, Split(Trim(path, "/"), "/"), handler)

NoMatch == [handler |-> NilHandler, params |-> <<>>, fault |-> FALSE]

\* the loop of Match from segment i on; fault is the nil dereference of
\* currentNode.children when the receiver is nil
RECURSIVE MatchFrom(_, _, _, _)
MatchFrom(n, segments, i, params) ==
    IF i > Len(segments)
    THEN IF n.nil THEN NoMatch
         ELSE [handler |-> n.handler, params |-> params, fault |-> FALSE]
    ELSE LET segment == segments[i] IN
         IF segment = <<>> THEN MatchFrom(n, segments, i + 1, params)
         ELSE IF n.nil THEN [handler |-> NilHandler, params |-> <<>>, fault |-> TRUE]
         ELSE IF segment \in DOMAIN n.children
              THEN MatchFrom(n.children[segment], segments, i + 1, params)
         ELSE IF ~n.paramChild.nil
              THEN MatchFrom(n.paramChild, segments, i + 1,
                             MapPut(params, n.paramName, segment))
         ELSE IF ~n.wildcardChild.nil
              THEN [handler |-> n.wildcardChild.handler,
                    params |-> MapPut(params, n.wildcardName,
                                      Join(SubSeq(segments, i, Len(segments)), <<"/">>)),
                    fault |-> FALSE]
         ELSE NoMatch

\* Match with the parameter child looked at before the static children
RECURSIVE MatchFrom_ParamFirst(_, _, _, _)
MatchFrom_ParamFirst(n, segments, i, params) ==
    IF i > Len(segments)
    THEN IF n.nil THEN NoMatch
         ELSE [handler |-> n.handler, params |-> params, fault |-> FALSE]
    ELSE LET segment == segments[i] IN
         IF segment = <<>> THEN MatchFrom_ParamFirst(n, segments, i + 1, params)
         ELSE IF n.nil THEN [handler |-> NilHandler, params |-> <<>>, fault |-> TRUE]
         ELSE IF ~n.paramChild.nil
              THEN MatchFrom_ParamFirst(n.paramChild, segments, i + 1,
                                        MapPut(params, n.paramName, segment))
         ELSE IF segment \in DOMAIN n.children
              THEN MatchFrom_ParamFirst(n.children[segment], segments, i + 1, params)
         ELSE IF ~n.wildcardChild.nil
              THEN [handler |-> n.wildcardChild.handler,
                    params |-> MapPut(params, n.wildcardName,
                                      Join(SubSeq(segments, i, Len(segments)), <<"/">>)),
                    fault |-> FALSE]
         ELSE NoMatch

Match_ParamFirst(n, path) == MatchFrom_ParamFirst(n, Split(Trim(path, "/"), "/"), 1, <<>>)

\* a Match that comes back to a node and tries its parameter child, and
\* then its wildcard child, when the child taken first led to no handler
RECURSIVE MatchFrom_Backtracking(_, _, _, _)
MatchFrom_Backtracking(n, segments, i, params) ==
    IF i > Len(segments)
    THEN IF n.nil THEN NoMatch
         ELSE [handler |-> n.handler, params |-> params, fault |-> FALSE]
    ELSE LET segment == segments[i]
             static == MatchFrom_Backtracking(n.children[segment], segments, i + 1, params)
             param == MatchFrom_Backtracking(n.paramChild, segments, i + 1,
                                             MapPut(params, n.paramName, segment))
         IN
         IF segment = <<>> THEN MatchFrom_Backtracking(n, segments, i + 1, params)
         ELSE IF n.nil THEN [handler |-> NilHandler, params |-> <<>>, fault |-> TRUE]
         ELSE IF segment \in DOMAIN n.children /\ ~static.handler.nil THEN static
         ELSE IF ~n.paramChild.nil /\ ~param.handler.nil THEN param
         ELSE IF ~n.wildcardChild.nil
              THEN [handler |-> n.wildcardChild.handler,
                    params |-> MapPut(params, n.wildcardName,
                                      Join(SubSeq(segments, i, Len(segments)), <<"/">>)),
                    fault |-> FALSE]
         ELSE NoMatch

Match_Backtracking(n, path) ==
    MatchFrom_Backtracking(n, Split(Trim(path, "/"), "/"), 1, <<>>)

Match(n, path) == MatchFrom(n, Split(Trim(path, "/"), "/"), 1, <<>>)

\* a walk like that of Match that makes the static child it does not find
RECURSIVE TreeAfterMatch_Inserting(_, _, _)
TreeAfterMatch_Inserting(n, segments, i) ==
    IF i > Len(segments) \/ n.nil THEN n
    ELSE LET segment == segments[i] IN
         IF segment = <<>> THEN TreeAfterMatch_Inserting(n, segments, i + 1)
         ELSE [n EXCEPT !.children =
                  MapPut(n.children, segment,
                         TreeAfterMatch_Inserting(
                             IF segment \in DOMAIN n.children THEN n.children[segment]
                             ELSE NewTrieNode, segments, i + 1))]

\* the node n after the loop of Match from segment i on: the nodes the walk
\* went through, each with the fields the statements of the loop left it
\* (the loop reads children, paramChild, paramName, wildcardChild and
\* wildcardName and assigns only to its locals; reading a map under a key
\* it does not have adds nothing to it)
RECURSIVE TreeAfterMatch(_, _, _)
TreeAfterMatch(n, segments, i) ==
    IF i > Len(segments) \/ n.nil THEN n
    ELSE LET segment == segments[i] IN
         IF segment = <<>> THEN TreeAfterMatch(n, segments, i + 1)
         ELSE IF segment \in DOMAIN n.children
              THEN [n EXCEPT !.children =
                       MapPut(n.children, segment,
                              TreeAfterMatch(n.children[segment], segments, i + 1))]
         ELSE IF ~n.paramChild.nil
              THEN [n EXCEPT !.paramChild = TreeAfterMatch(n.paramChild, segments, i + 1)]
         ELSE n

----------------------------------------------------------------------------
\* CORS inside the router (corsHandler).

S_Origin == <<"O", "r", "i", "g", "i", "n">>
S_Accept == <<"A", "c", "c", "e", "p", "t">>
S_Content_Type == <<"C", "o", "n", "t", "e", "n", "t", "-", "T", "y", "p", "e">>
S_Vary == <<"V", "a", "r", "y">>
S_ACRM == <<"A", "c", "c", "e", "s", "s", "-", "C", "o", "n", "t", "r", "o", "l", "-", "R", "e", "q", "u", "e", "s", "t", "-", "M", "e", "t", "h", "o", "d">>
S_ACRH == <<"A", "c", "c", "e", "s", "s", "-", "C", "o", "n", "t", "r", "o", "l", "-", "R", "e", "q", "u", "e", "s", "t", "-", "H", "e", "a", "d", "e", "r", "s">>
S_ACAO == <<"A", "c", "c", "e", "s", "s", "-", "C", "o", "n", "t", "r", "o", "l", "-", "A", "l", "l", "o", "w", "-", "O", "r", "i", "g", "i", "n">>
S_ACAM == <<"A", "c", "c", "e", "s", "s", "-", "C", "o", "n", "t", "r", "o", "l", "-", "A", "l", "l", "o", "w", "-", "M", "e", "t", "h", "o", "d", "s">>
S_ACAH == <<"A", "c", "c", "e", "s", "s", "-", "C", "o", "n", "t", "r", "o", "l", "-", "A", "l", "l", "o", "w", "-", "H", "e", "a", "d", "e", "r", "s">>
S_ACAC == <<"A", "c", "c", "e", "s", "s", "-", "C", "o", "n", "t", "r", "o", "l", "-", "A", "l", "l", "o", "w", "-", "C", "r", "e", "d", "e", "n", "t", "i", "a", "l", "s">>
S_ACMA == <<"A", "c", "c", "e", "s", "s", "-", "C", "o", "n", "t", "r", "o", "l", "-", "M", "a", "x", "-", "A", "g", "e">>
S_ACEH == <<"A", "c", "c", "e", "s", "s", "-", "C", "o", "n", "t", "r", "o", "l", "-", "E", "x", "p", "o", "s", "e", "-", "H", "e", "a", "d", "e", "r", "s">>
S_true == <<"t", "r", "u", "e">>
S_star == <<"*">>
V_origin_a == <<"h", "t", "t", "p", ":", "/", "/", "a">>
V_get == <<"g", "e", "t">>

\* the zero value of CorsOptions
ZeroCorsOptions ==
    [AllowedOrigins |-> <<>>, AllowedMethods |-> <<>>, AllowedHeaders |-> <<>>,
     ExposedHeaders |-> <<>>, AllowCredentials |-> FALSE, MaxAge |-> 0,
     OptionsPassthrough |-> FALSE]

\* http.CanonicalHeaderKey: upper case after the start and after each '-'
RECURSIVE CanonicalFrom(_, _)
CanonicalFrom(s, upper) ==
    IF s = <<>> THEN <<>>
    ELSE <<IF upper THEN UpperChar(Head(s)) ELSE LowerChar(Head(s))>>
         \o CanonicalFrom(Tail(s), Head(s) = "-")

CanonicalHeaderKey(s) == CanonicalFrom(s, TRUE)

\* parseHeaderList: the names of a comma-separated list, in canonical form
parseHeaderList(s) ==
    IF s = <<>> THEN <<>>
    ELSE LET parts == Split(s, ",")
         IN [i \in DOMAIN parts |-> CanonicalHeaderKey(TrimSpace(parts[i]))]

\* newCorsHandler; convert(list, f) applies f to every element of the list.
\* The options of the model name no origin with an embedded '*' and no
\* AllowOriginFunc.
newCorsHandler(options) ==
    LET star == \E i \in DOMAIN options.AllowedOrigins :
                    ToLower(options.AllowedOrigins[i]) = S_star
        allHeaders == \E i \in DOMAIN options.AllowedHeaders :
                          options.AllowedHeaders[i] = S_star
    IN [exposedHeaders |-> [i \in DOMAIN options.ExposedHeaders |->
                               CanonicalHeaderKey(options.ExposedHeaders[i])],
        allowCredentials |-> options.AllowCredentials,
        maxAge |-> options.MaxAge,
        optionPassthrough |-> options.OptionsPassthrough,
        allowedOriginsAll |-> (Len(options.AllowedOrigins) = 0 \/ star),
        allowedOrigins |-> IF star THEN <<>>
                           ELSE [i \in DOMAIN options.AllowedOrigins |->
                                    ToLower(options.AllowedOrigins[i])],
        allowedHeadersAll |-> allHeaders,
        allowedHeaders |->
            IF Len(options.AllowedHeaders) = 0 THEN <<S_Origin, S_Accept, S_Content_Type>>
            ELSE IF allHeaders THEN <<>>
            ELSE [i \in 1..(Len(options.AllowedHeaders) + 1) |->
                     CanonicalHeaderKey(Append(options.AllowedHeaders, S_Origin)[i])],
        allowedMethods |->
            IF Len(options.AllowedMethods) = 0 THEN <<S_GET, S_POST, S_HEAD>>
            ELSE [i \in DOMAIN options.AllowedMethods |->
                     ToUpper(options.AllowedMethods[i])]]

isOriginAllowed(c, r, origin) ==
    \/ c.allowedOriginsAll
    \/ ToLower(origin) \in Range(c.allowedOrigins)

isMethodAllowed(c, method) ==
    \/ ToUpper(method) = S_OPTIONS
    \/ /\ Len(c.allowedMethods) # 0
       /\ ToUpper(method) \in Range(c.allowedMethods)

areHeadersAllowed(c, requestedHeaders) ==
    \/ c.allowedHeadersAll
    \/ Len(requestedHeaders) = 0
    \/ \A i \in DOMAIN requestedHeaders :
           CanonicalHeaderKey(requestedHeaders[i]) \in Range(c.allowedHeaders)

handlePreflight(c, r) ==
    LET origin == HeadersGet(r.Headers, S_Origin)
        vary == HeadersAdd(HeadersAdd(HeadersAdd(NewHeaders, S_Vary, S_Origin),
                                      S_Vary, S_ACRM), S_Vary, S_ACRH)
        reqMethod == HeadersGet(r.Headers, S_ACRM)
        reqHeaders == parseHeaderList(HeadersGet(r.Headers, S_ACRH))
        h1 == HeadersSet(vary, S_ACAO, IF c.allowedOriginsAll THEN S_star ELSE origin)
        h2 == HeadersSet(h1, S_ACAM, ToUpper(reqMethod))
        h3 == IF Len(reqHeaders) > 0
              THEN HeadersSet(h2, S_ACAH, Join(reqHeaders, <<",", " ">>)) ELSE h2
        h4 == IF c.allowCredentials THEN HeadersSet(h3, S_ACAC, S_true) ELSE h3
        h5 == IF c.maxAge > 0 THEN HeadersSet(h4, S_ACMA, Itoa(c.maxAge)) ELSE h4
    IN IF r.Method # S_OPTIONS THEN NewHeaders
       ELSE IF ~isOriginAllowed(c, r, origin) THEN vary
       ELSE IF ~isMethodAllowed(c, reqMethod) THEN vary
       ELSE IF ~areHeadersAllowed(c, reqHeaders) THEN vary
       ELSE h5

handleActualRequest(c, r) ==
    LET origin == HeadersGet(r.Headers, S_Origin)
        vary == HeadersAdd(NewHeaders, S_Vary, S_Origin)
        h1 == HeadersSet(vary, S_ACAO, IF c.allowedOriginsAll THEN S_star ELSE origin)
        h2 == IF Len(c.exposedHeaders) > 0
              THEN HeadersSet(h1, S_ACEH, Join(c.exposedHeaders, <<",", " ">>)) ELSE h1
        h3 == IF c.allowCredentials THEN HeadersSet(h2, S_ACAC, S_true) ELSE h2
    IN IF Len(origin) = 0 THEN vary
       ELSE IF ~isOriginAllowed(c, r, origin) THEN vary
       ELSE IF ~isMethodAllowed(c, r.Method) THEN vary
       ELSE h3

----------------------------------------------------------------------------
\* The router (Router).

S_ANY == <<"A", "N", "Y">>
S_gone == <<"g", "o", "n", "e">>

\* the handler NewRouter installs for a path that nothing matches
defaultNotFoundHandler == [nil |-> FALSE, id |-> <<S_NotFound>>]

\* a not-found handler of the application
customNotFoundHandler == [nil |-> FALSE, id |-> <<S_gone>>]

\* handler(r): what a handler returns.  A route's handler answers with a
\* text that names the route it was registered for.
Call(handler, r) ==
    IF handler = defaultNotFoundHandler
    THEN WithStatusCode(NewTextResponse(GetStatusReason(StatusNotFound)), StatusNotFound)
    ELSE IF handler = customNotFoundHandler
    THEN WithStatusCode(NewTextResponse(S_gone), StatusNotFound)
    ELSE NewTextResponse(handler.id[1] \o handler.id[2])

\* the options NewRouter is given: nil, CORS with the zero options, CORS for
\* one origin and GET only with credentials and OPTIONS passed through
NoRouterOptions == [nil |-> TRUE, EnableCors |-> FALSE, CorsOptions |-> ZeroCorsOptions]

RouterOpts ==
    { NoRouterOptions,
      [nil |-> FALSE, EnableCors |-> TRUE, CorsOptions |-> ZeroCorsOptions],
      [nil |-> FALSE, EnableCors |-> TRUE,
       CorsOptions |-> [ZeroCorsOptions EXCEPT !.AllowedOrigins = <<V_origin_a>>,
                                               !.AllowedMethods = <<V_get>>,
                                               !.AllowCredentials = TRUE,
                                               !.OptionsPassthrough = TRUE]] }

NewRouter(o) ==
    [trees |-> [m \in {S_GET, S_POST, S_PUT, S_PATCH, S_DELETE, S_OPTIONS, S_HEAD, S_ANY}
                    |-> NewTrieNode],
     notFoundHandler |-> defaultNotFoundHandler,
     middlewares |-> <<>>,
     corsEnabled |-> (~o.nil /\ o.EnableCors),
     cors |-> newCorsHandler(o.CorsOptions)]

\* router.trees[method]: nil when the map holds no tree for the method
TreeOf(r, method) == IF method \in DOMAIN r.trees THEN r.trees[method] ELSE NilNode

\* how a call of a handler ends: with a response, or with a fault
Returned(response, ran, params) ==
    [kind |-> "response", resp |-> response, ran |-> ran, params |-> params,
     events |-> <<>>]

Faulted ==
    [kind |-> "fault", resp |-> NewBaseResponse, ran |-> <<>>, params |-> <<>>,
     events |-> <<>>]

NoOutcome ==
    [kind |-> "none", resp |-> NewBaseResponse, ran |-> <<>>, params |-> <<>>,
     events |-> <<>>]

\* respHeaders.Set(k, v) for every entry of a map
RECURSIVE SetAll(_, _, _)
SetAll(h, m, keys) ==
    IF keys = {} THEN h
    ELSE LET k == CHOOSE k \in keys : TRUE
         IN SetAll(HeadersSet(h, k, m[k]), m, keys \ {k})

\* the request is taken as a preflight (lines 130-134)
IsPreflight(rt, r) ==
    /\ rt.corsEnabled
    /\ r.Method = S_OPTIONS
    /\ HeadersGet(r.Headers, S_ACRM) # <<>>
    /\ Len(HeadersGet(r.Headers, S_Origin)) # 0

\* a preflight branch that looks in the ANY tree before the OPTIONS tree
Preflight_AnyFirst(rt, r) ==
    LET headers == handlePreflight(rt.cors, r)
        o == Match(rt.trees[S_OPTIONS], r.Target)
        a == Match(rt.trees[S_ANY], r.Target)
        merged(response) ==
            [response EXCEPT !.Headers = SetAll(response.Headers, headers, DOMAIN headers)]
    IN IF rt.cors.optionPassthrough /\ ~a.handler.nil
       THEN Returned(merged(Call(a.handler, r)), <<a.handler>>, a.params)
       ELSE IF rt.cors.optionPassthrough /\ ~o.handler.nil
       THEN Returned(merged(Call(o.handler, r)), <<o.handler>>, o.params)
       ELSE Returned(merged(WithStatusCode(NewBaseResponse, StatusNoContent)), <<>>, <<>>)

\* the preflight branch (lines 135-156)
Preflight(rt, r) ==
    LET headers == handlePreflight(rt.cors, r)
        o == Match(rt.trees[S_OPTIONS], r.Target)
        a == Match(rt.trees[S_ANY], r.Target)
        merged(response) ==
            [response EXCEPT !.Headers = SetAll(response.Headers, headers, DOMAIN headers)]
    IN IF rt.cors.optionPassthrough /\ ~o.handler.nil
       THEN Returned(merged(Call(o.handler, r)), <<o.handler>>, o.params)
       ELSE IF rt.cors.optionPassthrough /\ ~a.handler.nil
       THEN Returned(merged(Call(a.handler, r)), <<a.handler>>, a.params)
       ELSE Returned(merged(WithStatusCode(NewBaseResponse, StatusNoContent)), <<>>, <<>>)

\* a matched handler is run and the CORS headers of an actual request are
\* merged onto its response (lines 161-168 and 185-192)
RunRoute(rt, r, m) ==
    LET response == Call(m.handler, r) IN
    Returned(IF rt.corsEnabled
             THEN WithHeaders(response, handleActualRequest(rt.cors, r))
             ELSE response,
             <<m.handler>>, m.params)

\* HEAD served by the GET route as it would be with the body left in place
HeadFromGet_KeepsBody(rt, r, m) == RunRoute(rt, r, m)

\* HEAD served by the GET route (lines 173-180)
HeadFromGet(rt, r, m) ==
    LET o == RunRoute(rt, r, m) IN [o EXCEPT !.resp = WithBody(o.resp, NilBody)]

\* the loop over the trees of the other methods (lines 195-205)
OtherTreeMatches(rt, reqMethod, path) ==
    \E method \in DOMAIN rt.trees :
        /\ method # reqMethod
        /\ method # S_ANY
        /\ ~Match(rt.trees[method], path).handler.nil

\* the routing handler that Handler() builds (lines 126-208)
routingHandler(rt, r) ==
    LET reqMethod == r.Method
        path == r.Target
        own == Match(TreeOf(rt, reqMethod), path)
        get == Match(rt.trees[S_GET], path)
        any == Match(rt.trees[S_ANY], path)
    IN IF IsPreflight(rt, r) THEN Preflight(rt, r)
       ELSE IF own.fault THEN Faulted
       ELSE IF ~own.handler.nil THEN RunRoute(rt, r, own)
       ELSE IF reqMethod = S_HEAD /\ ~get.handler.nil THEN HeadFromGet(rt, r, get)
       ELSE IF ~any.handler.nil THEN RunRoute(rt, r, any)
       ELSE IF OtherTreeMatches(rt, reqMethod, path)
            THEN Returned(WithStatusCode(NewTextResponse(GetStatusReason(StatusMethodNotAllowed)),
                                         StatusMethodNotAllowed), <<>>, <<>>)
       ELSE Returned(Call(rt.notFoundHandler, r), <<rt.notFoundHandler>>, <<>>)

\* a handler value: the routing handler, or a middleware around a handler
RoutingHandler == [kind |-> "routing"]

\* r.middlewares[i](h)
Wrap(m, h) == [kind |-> "mw", m |-> m, next |-> h]

RECURSIVE chainUp(_, _, _)
chainUp(middlewares, i, h) ==
    IF i > Len(middlewares) THEN h
    ELSE chainUp(middlewares, i + 1, Wrap(middlewares[i], h))

RECURSIVE chainDown(_, _, _)
chainDown(middlewares, i, h) ==
    IF i < 1 THEN h
    ELSE chainDown(middlewares, i - 1, Wrap(middlewares[i], h))

\* chain as it would be with the loop running from the first middleware up
chain_Ascending(rt, h) == chainUp(rt.middlewares, 1, h)

\* chain: the loop runs from the last middleware down to the first
chain(rt, h) == chainDown(rt.middlewares, Len(rt.middlewares), h)

\* a call of a handler value.  A middleware of the model notes that it is
\* entered, calls the handler it wraps, notes that it is left and passes
\* the response on; a fault of the wrapped handler passes through it.
RECURSIVE Apply(_, _, _)
Apply(h, rt, r) ==
    IF h.kind = "routing"
    THEN [routingHandler(rt, r) EXCEPT !.events = <<[ev |-> "route", m |-> ""]>>]
    ELSE LET o == Apply(h.next, rt, r) IN
         [o EXCEPT !.events =
              <<[ev |-> "enter", m |-> h.m]>> \o o.events
              \o (IF o.kind = "fault" THEN <<>> ELSE <<[ev |-> "exit", m |-> h.m]>>)]

NoComposite == [built |-> FALSE, h |-> RoutingHandler, of |-> <<>>]

IdleRouter ==
    /\ router = NewRouter(NoRouterOptions)
    /\ routes = {}
    /\ composite = NoComposite
    /\ rpc = "idle"
    /\ rreq = NoRequest
    /\ rres = NoOutcome

\* no call of Match yet
NoLookup == [done |-> FALSE, path |-> <<>>, out |-> NoMatch]

IdleTrie ==
    /\ trie = NewTrieNode
    /\ tadded = <<>>
    /\ lookup = NoLookup

\* no call on the Headers value yet
NoHeadersCall ==
    [op |-> "none", key |-> <<>>, value |-> <<>>, before |-> NewHeaders, got |-> <<>>]

IdleHeaders ==
    /\ hdrs = NewHeaders
    /\ hlog = <<>>
    /\ hcall = NoHeadersCall

\* Decode has not been called
NoDecode == [done |-> FALSE, body |-> <<>>, trailers |-> NewHeaders, err |-> "nil"]

\* a stream response as NewStreamResponse leaves it: the stream function
\* has not written yet, the pipe is open, nothing is buffered or read
NewStreamResponse(trailerList) ==
    /\ prod = [steps |-> 0, returned |-> FALSE, ret |-> "nil", trailerList |-> trailerList]
    /\ sent = <<>>
    /\ pipe = [has |-> FALSE, data |-> <<>>, err |-> "nil"]
    /\ trailers = NewHeaders
    /\ cr = [buf |-> <<>>, eof |-> FALSE]
    /\ wire = <<>>
    /\ rdone = "nil"
    /\ dec = NoDecode

\* a stream response that declares no trailers
IdleStream == NewStreamResponse(<<>>)

\* no bytes yet
NoInput ==
    [blank |-> FALSE, method |-> <<>>, target |-> <<>>, version |-> <<>>,
     fields |-> <<>>, complete |-> FALSE]

\* RequestFromReader has not been called
NoParse ==
    [done |-> FALSE, err |-> "nil", Method |-> <<>>, Target |-> <<>>,
     Headers |-> NewHeaders, bodyAt |-> 0]

\* Body has not been called
NoBody == [done |-> FALSE, err |-> "nil", kind |-> "none", limit |-> 0]

IdleRequest ==
    /\ rin = NoInput
    /\ preq = NoParse
    /\ pbody = NoBody

\* Body has not been called on the connection
NoBodyReader ==
    [open |-> FALSE, N |-> 0, bytesConsumed |-> 0, contentLength |-> 0,
     got |-> <<>>, err |-> "nil", closed |-> FALSE]

IdleKept ==
    /\ kin = <<>>
    /\ kpos = 0
    /\ kreq = [at |-> 0, r |-> NoParse]
    /\ kbody = NoBodyReader
    /\ kcyc = <<>>
    /\ kpc = "done"

\* a Server as newServer makes it: not closed, no listener yet, listen not
\* started
newServer == [closed |-> FALSE, listener |-> "nil"]

IdleListen ==
    /\ srv = newServer
    /\ lpc = "start"
    /\ lcause = ""
    /\ lret = "none"
    /\ cpc = "idle"
    /\ accepted = <<>>

\* the parts that are driven on their own, before anything is done with them
IdleExtra ==
    /\ IdleTrie
    /\ IdleHeaders
    /\ IdleStream
    /\ IdleRequest
    /\ IdleKept
    /\ IdleListen

----------------------------------------------------------------------------
\* The connection handler (Server.handle) and what it is given.

S_host == <<"h", "o", "s", "t">>
S_Host == <<"H", "o", "s", "t">>
S_date == <<"d", "a", "t", "e">>
S_Date == <<"D", "a", "t", "e">>
S_connection == <<"c", "o", "n", "n", "e", "c", "t", "i", "o", "n">>
S_Connection == <<"C", "o", "n", "n", "e", "c", "t", "i", "o", "n">>
S_close == <<"c", "l", "o", "s", "e">>
S_Close == <<"C", "l", "o", "s", "e">>
S_keep_alive == <<"k", "e", "e", "p", "-", "a", "l", "i", "v", "e">>
S_Content_Length == <<"C", "o", "n", "t", "e", "n", "t", "-", "L", "e", "n", "g", "t", "h">>
S_transfer_encoding == <<"t", "r", "a", "n", "s", "f", "e", "r", "-", "e", "n", "c", "o", "d", "i", "n", "g">>
S_Transfer_Encoding == <<"T", "r", "a", "n", "s", "f", "e", "r", "-", "E", "n", "c", "o", "d", "i", "n", "g">>
S_chunked == <<"c", "h", "u", "n", "k", "e", "d">>
S_gzip == <<"g", "z", "i", "p">>
S_etag == <<"e", "t", "a", "g">>
S_ETag == <<"E", "T", "a", "g">>
S_if_none_match == <<"i", "f", "-", "n", "o", "n", "e", "-", "m", "a", "t", "c", "h">>
S_If_None_Match == <<"I", "f", "-", "N", "o", "n", "e", "-", "M", "a", "t", "c", "h">>
V_h1 == <<"h", "1">>
V_h2 == <<"h", "2">>
V_e1 == <<"e", "1">>
V_e2 == <<"e", "2">>
V_2 == <<"2">>
V_old == <<"T", "0">>
P_root == <<"/">>

\* time.Now().Format(time.RFC1123): some text that names the present moment
TimeNow == <<"T", "1">>

\* what a client may send on the connection
SrvRequests ==
    { ParseError,
      Request(S_GET, P_root, << <<S_Host, V_h1>> >>),
      Request(S_GET, P_root, << <<S_Host, V_h1>>, <<S_Connection, S_close>> >>),
      Request(S_GET, P_root, << <<S_Host, V_h1>>, <<S_Connection, S_Close>> >>),
      Request(S_GET, P_root, << <<S_Host, V_h1>>, <<S_Connection, S_keep_alive>> >>),
      Request(S_GET, P_root, << <<S_Connection, S_keep_alive>> >>),
      Request(S_GET, P_root, << <<S_Host, V_h1>>, <<S_Host, V_h2>> >>),
      Request(S_GET, P_root, << <<S_Host, V_h1>>, <<S_Content_Length, V_2>>,
                                <<S_Transfer_Encoding, S_chunked>> >>),
      Request(S_GET, P_root, << <<S_Host, V_h1>>, <<S_Transfer_Encoding, S_chunked>> >>),
      Request(S_GET, P_root, << <<S_Host, V_h1>>, <<S_Transfer_Encoding, S_gzip>>,
                                <<S_Transfer_Encoding, S_chunked>> >>),
      Request(S_GET, P_root, << <<S_Host, V_h1>>, <<S_Content_Length, V_2>> >>),
      Request(S_GET, P_root, << <<S_Host, V_h1>>, <<S_If_None_Match, V_e1>> >>),
      Request(S_GET, P_root, << <<S_Host, V_h1>>, <<S_If_None_Match, V_e2>> >>),
      Request(S_GET, P_root, << <<S_Host, V_h1>>, <<S_If_None_Match, <<>> >> >>) }

\* slices.Reverse
RECURSIVE Reverse(_)
Reverse(q) == IF q = <<>> THEN <<>> ELSE Append(Reverse(Tail(q)), Head(q))

\* whether every coding of a list is chunked once trimmed and lower-cased
RECURSIVE AllChunked(_)
AllChunked(encs) ==
    IF encs = <<>> THEN TRUE
    ELSE IF ToLower(TrimSpace(Head(encs))) # S_chunked THEN FALSE
    ELSE AllChunked(Tail(encs))

\* Request.TransferEncodings: whether it returns an error.  Without the
\* header there is nothing to resolve; with it every coding must be chunked.
TransferEncodings(r) ==
    LET te == HeadersGet(r.Headers, S_transfer_encoding) IN
    IF te = <<>> THEN FALSE
    ELSE ~AllChunked(Reverse(Split(te, ",")))

\* what a handler may do with a request: fault, or return one of these
SrvResponses ==
    { NewTextResponse(B_hi),
      WithStatusCode(NewBaseResponse, StatusNoContent),
      WithBody(WithHeader(NewBaseResponse, S_ETag, V_e1), Reader(B_hi)),
      WithBody(WithHeader(NewBaseResponse, S_ETag, <<>>), Reader(B_hi)),
      WithHeader(WithStatusCode(NewBaseResponse, StatusNoContent), S_Date, V_old) }

HandlerOutcomes ==
    {[panic |-> TRUE, value |-> "fault", resp |-> NewBaseResponse]}
    \cup {[panic |-> FALSE, value |-> "", resp |-> r] : r \in SrvResponses}

\* defaultRecovery: 500 with the reason phrase as its text
defaultRecovery(r) ==
    WithStatusCode(NewTextResponse(GetStatusReason(StatusInternalServerError)),
                   StatusInternalServerError)

NewConn == [closed |-> FALSE, sink |-> NewSink]

\* ret is what the handler returned, timeout whether the idle deadline expired
NoCycle ==
    [phase |-> "none", werr |-> Nil, fault |-> "", ret |-> NewBaseResponse,
     timeout |-> FALSE]

IdleServer ==
    /\ opts = [KeepAliveTimeout |-> 0]
    /\ pc = "done"
    /\ reqNo = 0
    /\ req = NoRequest
    /\ resp = NewBaseResponse
    /\ shouldCloseConn = FALSE
    /\ conn = NewConn
    /\ log = <<>>
    /\ cyc = NoCycle
    /\ lastResp = NewBaseResponse
    /\ written = <<>>

\* handle is entered with an accepted connection (lines 61-65)
InitServer ==
    /\ IdleWriter
    /\ IdleRouter
    /\ IdleExtra
    /\ opts \in {[KeepAliveTimeout |-> 0], [KeepAliveTimeout |-> 10]}
    /\ pc = "read"
    /\ reqNo = 0
    /\ req = NoRequest
    /\ resp = NewBaseResponse
    /\ shouldCloseConn = (opts.KeepAliveTimeout = 0)
    /\ conn = NewConn
    /\ log = <<>>
    /\ cyc = NoCycle
    /\ lastResp = NewBaseResponse
    /\ written = <<>>

\* resp.Write(conn): the connection after it, the bytes it put there, and
\* the error it returned
ConnWrite(c, r, k, order) ==
    LET w == BaseResponseWrite(r, Arm(c.sink, k), order) IN
    [conn |-> [c EXCEPT !.sink = Disarm(w.sink)],
     bytes |-> SubSeq(w.sink.data, Len(c.sink.data) + 1, Len(w.sink.data)),
     err |-> w.err]

\* the validation as it would be without the check of the two framings
Rejected_AllowsBothFramings(r) ==
    \/ r.err
    \/ HeadersGet(r.Headers, S_host) = <<>>
    \/ Len(Split(HeadersGet(r.Headers, S_host), ",")) > 1
    \/ TransferEncodings(r)

\* the request is refused before the handler is reached (lines 93-127)
Rejected(r) ==
    \/ r.err
    \/ HeadersGet(r.Headers, S_host) = <<>>
    \/ Len(Split(HeadersGet(r.Headers, S_host), ",")) > 1
    \/ /\ HeadersGet(r.Headers, S_content_length) # <<>>
       /\ HeadersGet(r.Headers, S_transfer_encoding) # <<>>
    \/ TransferEncodings(r)

\* the deferred recovery as it would be without its own conn.Close()
RecoveryClose_LeavesOpen(c) == c

\* conn.Close() in the deferred recovery (line 81)
RecoveryClose(c) == [c EXCEPT !.closed = TRUE]

\* the deferred close (lines 69-75)
DeferredClose(c, should) == IF should THEN [c EXCEPT !.closed = TRUE] ELSE c

\* one pass of the loop up to the handler call: read and parse, validate,
\* and on a refusal write the 400 and leave the loop (lines 86-127).  With
\* a KeepAliveTimeout the deadline of line 89 may pass while the parser
\* waits for bytes (t): the read fails, RequestFromReader returns the error,
\* and as SetDeadline set the write deadline to the same moment, no write to
\* the connection succeeds any more
ReadRequest ==
    /\ pc = "read"
    /\ reqNo < MaxRequests
    /\ \E r \in SrvRequests, k \in Budgets, t \in BOOLEAN :
         /\ t => (opts.KeepAliveTimeout # 0 /\ r = ParseError /\ k = 0)
         /\ reqNo' = reqNo + 1
         /\ req' = r
         /\ IF Rejected(r)
            THEN LET bad == WithStatusCode(NewBaseResponse, StatusBadRequest)
                     w == ConnWrite(conn, bad, k, <<>>)
                 IN /\ conn' = DeferredClose(w.conn, TRUE)
                    /\ shouldCloseConn' = TRUE
                    /\ lastResp' = bad
                    /\ written' = w.bytes
                    /\ log' = log \o << [ev |-> "read", n |-> reqNo + 1],
                                        [ev |-> "write", n |-> reqNo + 1],
                                        [ev |-> "close", n |-> reqNo + 1] >>
                    /\ cyc' = [NoCycle EXCEPT !.phase = "refused", !.werr = w.err,
                                               !.timeout = t]
                    /\ pc' = "done"
                    /\ UNCHANGED resp
            ELSE /\ k = NoLimit
                 /\ ~t
                 /\ log' = Append(log, [ev |-> "read", n |-> reqNo + 1])
                 /\ cyc' = [NoCycle EXCEPT !.phase = "parsed"]
                 /\ lastResp' = NewBaseResponse
                 /\ written' = <<>>
                 /\ pc' = "handle"
                 /\ UNCHANGED <<resp, shouldCloseConn, conn>>
    /\ UNCHANGED <<opts>>
    /\ UNCHANGED <<wvars, rvars, xvars>>

\* the response between the handler and the wire as it would be if the 304
\* were given whenever both tags are there, equal or not
Stamped_AnyTag(r, rq, should) ==
    LET a == WithHeader([r EXCEPT !.Headers = HeadersRemove(r.Headers, S_date)],
                        S_date, TimeNow)
        b == IF should THEN WithHeader(a, S_connection, S_close) ELSE a
    IN IF HeadersGet(b.Headers, S_etag) # <<>> /\ HeadersGet(rq.Headers, S_if_none_match) # <<>>
       THEN WithStatusCode(NewBaseResponse, StatusNotModified)
       ELSE b

\* the response between the handler and the wire (lines 130-144)
Stamped(r, rq, should) ==
    LET a == WithHeader([r EXCEPT !.Headers = HeadersRemove(r.Headers, S_date)],
                        S_date, TimeNow)
        b == IF should THEN WithHeader(a, S_connection, S_close) ELSE a
        respEtag == HeadersGet(b.Headers, S_etag)
        reqEtag == HeadersGet(rq.Headers, S_if_none_match)
    IN IF respEtag # <<>> /\ reqEtag # <<>> /\ respEtag = reqEtag
       THEN WithStatusCode(NewBaseResponse, StatusNotModified)
       ELSE b

\* the handler is called; if it faults, the deferred recovery writes the
\* response of the Recovery callback and closes the connection, and the
\* deferred close then runs (lines 69-85, 129-144)
InvokeHandler ==
    /\ pc = "handle"
    /\ \E o \in HandlerOutcomes, k \in Budgets :
         IF o.panic
         THEN \E order \in Orders(DOMAIN defaultRecovery(o.value).Headers) :
              LET rec == defaultRecovery(o.value)
                  w == ConnWrite(conn, rec, k, order)
              IN /\ conn' = DeferredClose(RecoveryClose(w.conn), shouldCloseConn)
                 /\ lastResp' = rec
                 /\ written' = w.bytes
                 /\ log' = log \o << [ev |-> "handler", n |-> reqNo],
                                     [ev |-> "recovery", n |-> reqNo],
                                     [ev |-> "write", n |-> reqNo],
                                     [ev |-> "close", n |-> reqNo] >>
                 /\ cyc' = [NoCycle EXCEPT !.phase = "recovered", !.werr = w.err,
                                            !.fault = o.value]
                 /\ pc' = "done"
                 /\ UNCHANGED resp
         ELSE /\ k = NoLimit
              /\ resp' = Stamped(o.resp, req, shouldCloseConn)
              /\ log' = Append(log, [ev |-> "handler", n |-> reqNo])
              /\ cyc' = [NoCycle EXCEPT !.phase = "handled", !.ret = o.resp]
              /\ pc' = "write"
              /\ UNCHANGED <<conn, lastResp, written>>
    /\ UNCHANGED <<opts, reqNo, req, shouldCloseConn>>
    /\ UNCHANGED <<wvars, rvars, xvars>>

\* whether the loop is left after a response was written (lines 146-161)
LeavesLoop(werr, rq, should) ==
    \/ werr # Nil
    \/ TrimSpace(ToLower(HeadersGet(rq.Headers, S_connection))) = S_close
    \/ should

\* the response is written; the loop is left on a write error, on a
\* request that asked for close and when keep-alive is off, and otherwise
\* the request body is drained for the next pass (lines 146-166)
WriteResponse ==
    /\ pc = "write"
    /\ \E k \in Budgets, order \in Orders(DOMAIN resp.Headers) :
         LET w == ConnWrite(conn, resp, k, order) IN
         /\ lastResp' = resp
         /\ written' = w.bytes
         /\ cyc' = [cyc EXCEPT !.phase = "written", !.werr = w.err]
         /\ IF LeavesLoop(w.err, req, shouldCloseConn)
            THEN /\ shouldCloseConn' = TRUE
                 /\ conn' = DeferredClose(w.conn, TRUE)
                 /\ log' = log \o << [ev |-> "write", n |-> reqNo],
                                     [ev |-> "close", n |-> reqNo] >>
                 /\ pc' = "done"
            ELSE /\ conn' = w.conn
                 /\ log' = log \o << [ev |-> "write", n |-> reqNo],
                                     [ev |-> "drain", n |-> reqNo] >>
                 /\ pc' = "read"
                 /\ UNCHANGED shouldCloseConn
    /\ UNCHANGED <<opts, reqNo, req, resp>>
    /\ UNCHANGED <<wvars, rvars, xvars>>

NextServer ==
    \/ ReadRequest
    \/ InvokeHandler
    \/ WriteResponse

SpecServer == InitServer /\ [][NextServer]_vars

----------------------------------------------------------------------------
\* The response writer driven by a caller: the three operations in any
\* order on one ResponseWriter, and BaseResponse.Write on a sink of its own.

WResponses ==
    { NewBaseResponse,
      WithHeader(WithStatusCode(NewBaseResponse, StatusNoContent), H_x_test, V_no_body),
      WithStatusCode(NewBaseResponse, 299),
      NewTextResponse(B_hi),
      WithStatusCode(NewTextResponse(<<>>), StatusNotFound),
      WithBody(WithHeader(NewBaseResponse, H_x_test, V_no_body), Reader(B_hi)) }

InitWriter ==
    /\ IdleServer
    /\ IdleRouter
    /\ IdleExtra
    /\ wresp \in WResponses
    /\ rw = NewResponseWriter
    /\ sink = NewSink
    /\ wcall = NoCall
    /\ out = NewSink
    /\ wsnap = wresp
    /\ wret = "none"

Called(op, r) ==
    /\ rw' = r.rw
    /\ sink' = Disarm(r.sink)
    /\ wcall' = [op |-> op, before |-> rw.state, after |-> r.rw.state, err |-> r.err,
                 wrote |-> r.sink.data # sink.data]

CallWriteStatusLine ==
    \E k \in Budgets :
        /\ Called("WriteStatusLine", WriteStatusLine(rw, Arm(sink, k), wresp.StatusCode))
        /\ UNCHANGED <<wresp, out, wsnap, wret>>
        /\ UNCHANGED <<svars, rvars, xvars>>

CallWriteHeaders ==
    \E k \in Budgets, order \in Orders(DOMAIN wresp.Headers) :
        /\ Called("WriteHeaders", WriteHeaders(rw, Arm(sink, k), wresp.Headers, order))
        /\ UNCHANGED <<wresp, out, wsnap, wret>>
        /\ UNCHANGED <<svars, rvars, xvars>>

CallWriteBody ==
    /\ ~wresp.Body.nil
    /\ \E k \in Budgets :
         LET r == WriteBody(rw, Arm(sink, k), wresp.Body.data) IN
         /\ Called("WriteBody", r)
         /\ wresp' = [wresp EXCEPT !.Body = Reader(r.rest)]
         /\ UNCHANGED <<out, wsnap, wret>>
         /\ UNCHANGED <<svars, rvars, xvars>>

CallWrite ==
    \E k \in Budgets, order \in Orders(DOMAIN wresp.Headers) :
        LET r == BaseResponseWrite(wresp, Arm(NewSink, k), order) IN
        /\ out' = Disarm(r.sink)
        /\ wsnap' = wresp
        /\ wret' = r.err
        /\ wresp' = r.resp
        /\ UNCHANGED <<rw, sink, wcall>>
        /\ UNCHANGED <<svars, rvars, xvars>>

NextWriter ==
    \/ CallWriteStatusLine
    \/ CallWriteHeaders
    \/ CallWriteBody
    \/ CallWrite

SpecWriter == InitWriter /\ [][NextWriter]_vars

----------------------------------------------------------------------------
\* The router driven by an application and a server: routes are registered,
\* Handler() is called, and the handler it returned is called with the
\* requests the parser lets through.

P_x == <<"/", "x">>
P_i == <<"/", ":", "i">>
P_y == <<"/", "y">>

\* the paths routes are registered for
RoutePaths == {P_x, P_i}

P_x_q == <<"/", "x", "?", "k", "=", "v">>

\* the targets of requests
Targets == {P_root, P_x, P_y, P_x_q}

\* the header fields of a request that matter to the router
RouterHeaders ==
    { <<>>,
      << <<S_Origin, V_origin_a>> >>,
      << <<S_Origin, V_origin_a>>, <<S_ACRM, S_GET>> >> }

RouterRequests ==
    {Request(method, target, lines) :
        method \in Methods, target \in Targets, lines \in RouterHeaders}

\* the middlewares of the application
Middlewares == {"A", "B"}

\* what one call of Use passes
UseArgs == {<<m>> : m \in Middlewares} \cup {<<"A", "B">>}

InitRouter ==
    /\ IdleWriter
    /\ IdleServer
    /\ IdleExtra
    /\ router \in {NewRouter(o) : o \in RouterOpts}
    /\ routes = {}
    /\ composite = NoComposite
    /\ rpc = "idle"
    /\ rreq = NoRequest
    /\ rres = NoOutcome

\* r.trees[method].AddRoute(path, handler)
Register(method, path) ==
    /\ rpc = "idle"
    /\ Cardinality(routes \cup {<<method, path>>}) <= MaxRoutes
    /\ router' = [router EXCEPT
                    !.trees[method] = AddRoute(@, path, UserHandler(method, path))]
    /\ routes' = routes \cup {<<method, path>>}
    /\ UNCHANGED <<composite, rpc, rreq, rres>>
    /\ UNCHANGED <<wvars, svars, xvars>>

RouterGet == \E path \in RoutePaths : Register(S_GET, path)

RouterPost == \E path \in RoutePaths : Register(S_POST, path)

RouterPut == \E path \in RoutePaths : Register(S_PUT, path)

RouterPatch == \E path \in RoutePaths : Register(S_PATCH, path)

RouterDelete == \E path \in RoutePaths : Register(S_DELETE, path)

RouterOptions == \E path \in RoutePaths : Register(S_OPTIONS, path)

RouterHead == \E path \in RoutePaths : Register(S_HEAD, path)

RouterHandle == \E path \in RoutePaths : Register(S_ANY, path)

RouterNotFound ==
    /\ rpc = "idle"
    /\ router' = [router EXCEPT !.notFoundHandler = customNotFoundHandler]
    /\ UNCHANGED <<routes, composite, rpc, rreq, rres>>
    /\ UNCHANGED <<wvars, svars, xvars>>

RouterUse ==
    /\ rpc = "idle"
    /\ \E m \in UseArgs :
         /\ Len(router.middlewares) + Len(m) <= MaxMiddlewares
         /\ router' = [router EXCEPT !.middlewares = @ \o m]
    /\ UNCHANGED <<routes, composite, rpc, rreq, rres>>
    /\ UNCHANGED <<wvars, svars, xvars>>

\* Handler(): the middlewares of this moment are wrapped around the routing
\* handler, which goes on reading the router
RouterHandler ==
    /\ rpc = "idle"
    /\ composite' = [built |-> TRUE, h |-> chain(router, RoutingHandler),
                     of |-> router.middlewares]
    /\ UNCHANGED <<router, routes, rpc, rreq, rres>>
    /\ UNCHANGED <<wvars, svars, xvars>>

\* the server calls the handler that Handler() returned
Dispatch ==
    /\ rpc = "idle"
    /\ composite.built
    /\ \E r \in RouterRequests :
         /\ rreq' = r
         /\ rres' = Apply(composite.h, router, r)
    /\ rpc' = "returned"
    /\ UNCHANGED <<router, routes, composite>>
    /\ UNCHANGED <<wvars, svars, xvars>>

\* the server is done with the call
Resume ==
    /\ rpc = "returned"
    /\ rpc' = "idle"
    /\ rreq' = NoRequest
    /\ rres' = NoOutcome
    /\ UNCHANGED <<router, routes, composite>>
    /\ UNCHANGED <<wvars, svars, xvars>>

NextRouter ==
    \/ RouterGet
    \/ RouterPost
    \/ RouterPut
    \/ RouterPatch
    \/ RouterDelete
    \/ RouterOptions
    \/ RouterHead
    \/ RouterHandle
    \/ RouterNotFound
    \/ RouterHandler
    \/ Dispatch
    \/ Resume

SpecRouter == InitRouter /\ [][NextRouter]_vars

\* a router without CORS that is given middlewares and GET routes
InitMiddleware ==
    /\ IdleWriter
    /\ IdleServer
    /\ IdleRouter
    /\ IdleExtra

NextMiddleware ==
    \/ RouterUse
    \/ RouterGet
    \/ RouterHandler
    \/ Dispatch
    \/ Resume

SpecMiddleware == InitMiddleware /\ [][NextMiddleware]_vars

----------------------------------------------------------------------------
\* Chunked framing: the response-side chunkedReader that frames what a
\* stream function writes, and the request-side chunkedReader that decodes.

Min(a, b) == IF a < b THEN a ELSE b

HexChars == <<"0", "1", "2", "3", "4", "5", "6", "7", "8", "9", "a", "b", "c", "d", "e", "f">>

\* the %x verb of fmt for a non-negative integer
RECURSIVE Hex(_)
Hex(n) == IF n < 16 THEN <<HexChars[n + 1]>>
          ELSE Hex(n \div 16) \o <<HexChars[(n % 16) + 1]>>

HexValue(c) == (CHOOSE i \in DOMAIN HexChars : HexChars[i] = LowerChar(c)) - 1

RECURSIVE HexNumber(_, _)
HexNumber(digits, acc) ==
    IF digits = <<>> THEN acc
    ELSE HexNumber(Tail(digits), 16 * acc + HexValue(Head(digits)))

\* strconv.ParseInt(hex, 16, 64); a sign and a number beyond 64 bits do not
\* occur in this model
parseHexadecimal(hex) ==
    IF hex = <<>> \/ \E i \in DOMAIN hex : LowerChar(hex[i]) \notin Range(HexChars)
    THEN [n |-> 0, err |-> "invalid syntax"]
    ELSE [n |-> HexNumber(hex, 0), err |-> "nil"]

\* bytes.IndexByte, counting from 1, and 0 where Go gives -1
IndexByte(data, c) ==
    IF \E i \in DOMAIN data : data[i] = c
    THEN CHOOSE i \in DOMAIN data : data[i] = c /\ \A j \in 1..(i - 1) : data[j] # c
    ELSE 0

\* the first result of bytes.Cut(data, sep)
CutBefore(data, c) ==
    IF IndexByte(data, c) = 0 THEN data ELSE SubSeq(data, 1, IndexByte(data, c) - 1)

RECURSIVE TrimLeftCutset(_, _)
TrimLeftCutset(data, cutset) ==
    IF data # <<>> /\ Head(data) \in cutset THEN TrimLeftCutset(Tail(data), cutset)
    ELSE data

RECURSIVE TrimRightCutset(_, _)
TrimRightCutset(data, cutset) ==
    IF data # <<>> /\ data[Len(data)] \in cutset
    THEN TrimRightCutset(SubSeq(data, 1, Len(data) - 1), cutset)
    ELSE data

\* Headers.ParseFieldLine: the collection afterwards and the error
ParseFieldLine(h, data) ==
    LET colonPos == IndexByte(data, ":")
        hkey == TrimLeftCutset(SubSeq(data, 1, colonPos - 1), {" ", "\t"})
        hvalue == TrimRightCutset(TrimLeftCutset(SubSeq(data, colonPos + 1, Len(data)),
                                                 {" ", "\t"}), {" ", "\t"})
    IN IF colonPos = 0 THEN [h |-> h, err |-> "malformed header"]
       ELSE IF hkey # TrimRightCutset(hkey, {" "}) THEN [h |-> h, err |-> "malformed header"]
       ELSE IF ~isValidFieldName(hkey) \/ ~isValidFieldValue(hvalue)
            THEN [h |-> h, err |-> "malformed header"]
       ELSE [h |-> HeadersAdd(h, hkey, hvalue), err |-> "nil"]

\* ---- response side (internal/response/stream.go) ----

\* a chunk with its size in decimal
Chunk_DecimalSize(data) == Itoa(Len(data)) \o CRLF \o data \o CRLF

\* size CRLF data CRLF
Chunk(data) == Hex(Len(data)) \o CRLF \o data \o CRLF

\* the trailer lines, for one order of the iteration over the map
RECURSIVE TrailerLines(_, _)
TrailerLines(h, order) ==
    IF order = <<>> THEN <<>>
    ELSE Head(order) \o <<":", " ">> \o h[Head(order)] \o CRLF
         \o TrailerLines(h, Tail(order))

\* the trailer lines put before the zero-chunk
FinalChunk_TrailersFirst(h, order) ==
    (IF HeadersSize(h) > 0 THEN TrailerLines(h, order) ELSE <<>>) \o <<"0">> \o CRLF \o CRLF

\* what Read buffers at the end of the upstream
FinalChunk(h, order) ==
    <<"0">> \o CRLF \o (IF HeadersSize(h) > 0 THEN TrailerLines(h, order) ELSE <<>>) \o CRLF

\* cr.buf.Read(p) for p of a length: what p gets and what stays buffered
BufRead(buf, length) ==
    [out |-> SubSeq(buf, 1, Min(length, Len(buf))),
     buf |-> SubSeq(buf, Min(length, Len(buf)) + 1, Len(buf))]

\* a pipe whose close always reads as the end of the stream
PipeRead_AlwaysEOF(p) ==
    IF p.has
    THEN LET n == Min(Len(p.data), RawSize)
         IN [data |-> SubSeq(p.data, 1, n), err |-> "nil",
             pipe |-> [p EXCEPT !.has = n < Len(p.data),
                                !.data = SubSeq(p.data, n + 1, Len(p.data))]]
    ELSE [data |-> <<>>, err |-> "EOF", pipe |-> p]

\* the read side of the pipe, for a read that does not block: a waiting
\* write gives up to RawSize of its bytes, a closed pipe gives its error
PipeRead(p) ==
    IF p.has
    THEN LET n == Min(Len(p.data), RawSize)
         IN [data |-> SubSeq(p.data, 1, n), err |-> "nil",
             pipe |-> [p EXCEPT !.has = n < Len(p.data),
                                !.data = SubSeq(p.data, n + 1, Len(p.data))]]
    ELSE [data |-> <<>>, err |-> p.err, pipe |-> p]

\* chunkedReader.Read(p) for p of a length; order is the order in which the
\* trailers come out of the map
\* a chunked reader that writes the zero-chunk and the trailers whenever the
\* read of the pipe ends, with whatever error
ChunkedRead_TerminatesOnError(c, p, length, order) ==
    IF Len(c.buf) > 0
    THEN [cr |-> [c EXCEPT !.buf = BufRead(c.buf, length).buf], pipe |-> p,
          out |-> BufRead(c.buf, length).out, err |-> "nil"]
    ELSE IF c.eof THEN [cr |-> c, pipe |-> p, out |-> <<>>, err |-> "EOF"]
    ELSE LET up == PipeRead(p) IN
         IF Len(up.data) > 0
         THEN [cr |-> [c EXCEPT !.buf = BufRead(Chunk(up.data), length).buf],
               pipe |-> up.pipe, out |-> BufRead(Chunk(up.data), length).out, err |-> "nil"]
         ELSE IF up.err # "nil"
         THEN [cr |-> [buf |-> BufRead(FinalChunk(trailers, order), length).buf, eof |-> TRUE],
               pipe |-> up.pipe,
               out |-> BufRead(FinalChunk(trailers, order), length).out, err |-> "nil"]
         ELSE [cr |-> c, pipe |-> up.pipe, out |-> <<>>, err |-> up.err]

\* a chunked reader that takes a read of no bytes for the end of the
\* upstream
ChunkedRead_EndsOnEmpty(c, p, length, order) ==
    IF Len(c.buf) > 0
    THEN [cr |-> [c EXCEPT !.buf = BufRead(c.buf, length).buf], pipe |-> p,
          out |-> BufRead(c.buf, length).out, err |-> "nil"]
    ELSE IF c.eof THEN [cr |-> c, pipe |-> p, out |-> <<>>, err |-> "EOF"]
    ELSE LET up == PipeRead(p) IN
         IF Len(up.data) > 0
         THEN [cr |-> [c EXCEPT !.buf = BufRead(Chunk(up.data), length).buf],
               pipe |-> up.pipe, out |-> BufRead(Chunk(up.data), length).out, err |-> "nil"]
         ELSE IF up.err \in {"EOF", "nil"}
         THEN [cr |-> [buf |-> BufRead(FinalChunk(trailers, order), length).buf, eof |-> TRUE],
               pipe |-> up.pipe,
               out |-> BufRead(FinalChunk(trailers, order), length).out, err |-> "nil"]
         ELSE [cr |-> c, pipe |-> up.pipe, out |-> <<>>, err |-> up.err]

ChunkedRead(c, p, length, order) ==
    IF Len(c.buf) > 0
    THEN [cr |-> [c EXCEPT !.buf = BufRead(c.buf, length).buf], pipe |-> p,
          out |-> BufRead(c.buf, length).out, err |-> "nil"]
    ELSE IF c.eof THEN [cr |-> c, pipe |-> p, out |-> <<>>, err |-> "EOF"]
    ELSE LET up == PipeRead(p) IN
         IF Len(up.data) > 0
         THEN [cr |-> [c EXCEPT !.buf = BufRead(Chunk(up.data), length).buf],
               pipe |-> up.pipe, out |-> BufRead(Chunk(up.data), length).out, err |-> "nil"]
         ELSE IF up.err = "EOF"
         THEN [cr |-> [buf |-> BufRead(FinalChunk(trailers, order), length).buf, eof |-> TRUE],
               pipe |-> up.pipe,
               out |-> BufRead(FinalChunk(trailers, order), length).out, err |-> "nil"]
         ELSE [cr |-> c, pipe |-> up.pipe, out |-> <<>>, err |-> up.err]

\* ---- request side (internal/request/chunked_reader.go) ----

\* crlfReader.Read on the bytes of src from pos on: the line without its
\* CRLF, where the next read starts, and EOF when src ends before a CRLF
crlfRead(src, pos) ==
    LET ends == {j \in (pos + 1)..Len(src) : src[j - 1] = "\r" /\ src[j] = "\n"}
    IN IF ends = {}
       THEN [line |-> SubSeq(src, pos, Len(src)), pos |-> Len(src) + 1, err |-> "EOF"]
       ELSE LET j == CHOOSE j \in ends : \A k \in ends : j <= k
            IN [line |-> SubSeq(src, pos, j - 2), pos |-> j + 1, err |-> "nil"]

DecodeError(err) == [done |-> TRUE, body |-> <<>>, trailers |-> NewHeaders, err |-> err]

\* the loop over the trailer lines
RECURSIVE DecodeTrailers(_, _, _, _)
DecodeTrailers(src, pos, body, h) ==
    LET l == crlfRead(src, pos) IN
    IF l.err = "EOF" \/ l.line = <<>>
    THEN [done |-> TRUE, body |-> body, trailers |-> h, err |-> "nil"]
    ELSE IF ParseFieldLine(h, l.line).err # "nil"
         THEN DecodeError(ParseFieldLine(h, l.line).err)
    ELSE DecodeTrailers(src, l.pos, body, ParseFieldLine(h, l.line).h)

\* Decode from a chunk-size line on; atEOF is crlfReader.Done()
RECURSIVE DecodeChunks(_, _, _)
DecodeChunks(src, sizeLine, body) ==
    LET size == parseHexadecimal(CutBefore(sizeLine.line, ";"))
        pos == sizeLine.pos
    IN IF size.err # "nil" THEN DecodeError(size.err)
       ELSE IF size.n > 0
       THEN IF pos + size.n - 1 > Len(src) THEN DecodeError("unexpected EOF")
            ELSE IF pos + size.n + 1 > Len(src) THEN DecodeError("unexpected EOF")
            ELSE IF SubSeq(src, pos + size.n, pos + size.n + 1) # CRLF
                 THEN DecodeError("expected CRLF after chunk data")
            ELSE DecodeChunks(src, crlfRead(src, pos + size.n + 2),
                              body \o SubSeq(src, pos, pos + size.n - 1))
       ELSE IF sizeLine.err = "EOF"
            THEN [done |-> TRUE, body |-> body, trailers |-> NewHeaders, err |-> "nil"]
       ELSE DecodeTrailers(src, pos, body, NewHeaders)

\* chunkedReader.Decode on a reader that gives the bytes of src
Decode(src) == DecodeChunks(src, crlfRead(src, 1), <<>>)

----------------------------------------------------------------------------
\* The request parser (RequestFromReader) and the lazy body (Request.Body).

S_SP_HTTP11 == <<" ", "H", "T", "T", "P", "/", "1", ".", "1">>
S_HTTP10 == <<"H", "T", "T", "P", "/", "1", ".", "0">>

\* the characters \s of the request line pattern stands for
Whitespace == {" ", "\t", "\n", "\r", "\f"}

\* requestLineRegex: a method, a space, a target without whitespace, and
\* " HTTP/1.1" at the end of the line
LineFits(reqLine, m) ==
    /\ IsPrefix(m \o <<" ">>, reqLine)
    /\ Len(reqLine) >= Len(m) + 1 + Len(S_SP_HTTP11)
    /\ SubSeq(reqLine, Len(reqLine) - Len(S_SP_HTTP11) + 1, Len(reqLine)) = S_SP_HTTP11
    /\ \A i \in (Len(m) + 2)..(Len(reqLine) - Len(S_SP_HTTP11)) : reqLine[i] \notin Whitespace

parseRequestLine(reqLine) ==
    IF \E m \in Methods : LineFits(reqLine, m)
    THEN LET m == CHOOSE m \in Methods : LineFits(reqLine, m)
         IN [err |-> "nil", Method |-> m,
             Target |-> SubSeq(reqLine, Len(m) + 2, Len(reqLine) - Len(S_SP_HTTP11))]
    ELSE [err |-> "incorrect request line", Method |-> <<>>, Target |-> <<>>]

\* whether url.ParseQuery returns an error: a semicolon, or a percent sign
\* that two hexadecimal digits do not follow
ParseQueryFails(query) ==
    \E i \in DOMAIN query :
        \/ query[i] = ";"
        \/ /\ query[i] = "%"
           /\ \/ i + 2 > Len(query)
              \/ LowerChar(query[i + 1]) \notin Range(HexChars)
              \/ LowerChar(query[i + 2]) \notin Range(HexChars)

\* the part of the target after the first question mark
QueryOf(target) ==
    IF IndexByte(target, "?") = 0 THEN <<>>
    ELSE SubSeq(target, IndexByte(target, "?") + 1, Len(target))

RequestError(err) ==
    [done |-> TRUE, err |-> err, Method |-> <<>>, Target |-> <<>>,
     Headers |-> NewHeaders, bodyAt |-> 0]

\* the loop of RequestFromReader from the line that starts at pos on, and
\* what follows the loop; rl is the request line as far as it is parsed
RECURSIVE ParseLines(_, _, _, _, _)
ParseLines(src, pos, lineCount, rl, h) ==
    LET l == crlfRead(src, pos) IN
    IF l.line = <<>> /\ l.err # "EOF"
    THEN IF ParseQueryFails(QueryOf(rl.Target)) THEN RequestError("invalid query")
         ELSE [done |-> TRUE, err |-> "nil", Method |-> rl.Method, Target |-> rl.Target,
               Headers |-> h, bodyAt |-> l.pos]
    ELSE IF lineCount + 1 = 1
    THEN IF parseRequestLine(l.line).err # "nil"
         THEN RequestError(parseRequestLine(l.line).err)
         ELSE IF l.err = "EOF" THEN RequestError("incomplete request")
         ELSE ParseLines(src, l.pos, lineCount + 1, parseRequestLine(l.line), h)
    ELSE IF ParseFieldLine(h, l.line).err # "nil"
         THEN RequestError(ParseFieldLine(h, l.line).err)
         ELSE IF l.err = "EOF" THEN RequestError("incomplete request")
         ELSE ParseLines(src, l.pos, lineCount + 1, rl, ParseFieldLine(h, l.line).h)

\* RequestFromReader that reads through a buffered scanner, which takes
\* from the reader whatever it has to give
RequestFromReader_Scanner(src) ==
    LET r == ParseLines(src, 1, 0, [err |-> "nil", Method |-> <<>>, Target |-> <<>>],
                        NewHeaders)
    IN IF r.err = "nil" THEN [r EXCEPT !.bodyAt = Len(src) + 1] ELSE r

\* RequestFromReader on a reader that gives the bytes of src
RequestFromReader(src) ==
    ParseLines(src, 1, 0, [err |-> "nil", Method |-> <<>>, Target |-> <<>>], NewHeaders)

RECURSIVE DecNumber(_, _)
DecNumber(digits, acc) ==
    IF digits = <<>> THEN acc
    ELSE DecNumber(Tail(digits),
                   10 * acc + (CHOOSE i \in DOMAIN DigitChars : DigitChars[i] = Head(digits)) - 1)

\* strconv.Atoi; a sign and a number beyond the width of int do not occur
\* in this model
Atoi(a) ==
    IF a = <<>> \/ \E i \in DOMAIN a : a[i] \notin Range(DigitChars)
    THEN [n |-> 0, err |-> "invalid syntax"]
    ELSE [n |-> DecNumber(a, 0), err |-> "nil"]

contentLength(r) ==
    IF HeadersGet(r.Headers, S_content_length) = <<>> THEN 0
    ELSE IF Atoi(HeadersGet(r.Headers, S_content_length)).err # "nil" THEN 0
    ELSE Atoi(HeadersGet(r.Headers, S_content_length)).n

ErrNotImplemented == "transfer encoding not implemented"

\* transferEncodings that looks at the final coding only
transferEncodings_FinalOnly(r) ==
    LET encodings == Reverse(Split(HeadersGet(r.Headers, S_transfer_encoding), ","))
    IN IF ToLower(TrimSpace(Head(encodings))) = S_chunked
       THEN [encs |-> <<S_chunked>>, err |-> "nil"]
       ELSE [encs |-> <<>>, err |-> ErrNotImplemented]

\* Request.transferEncodings: the value of the header is split at the
\* commas whether or not the header is there, so that without the header
\* the one coding looked at is the empty text
transferEncodings(r) ==
    LET encodings == Reverse(Split(HeadersGet(r.Headers, S_transfer_encoding), ","))
    IN IF AllChunked(encodings) THEN [encs |-> <<S_chunked>>, err |-> "nil"]
       ELSE [encs |-> <<>>, err |-> ErrNotImplemented]

\* Request.Body: what it returns, and the headers of the request after
\* it.  The statement of the chunked branch that uses the chunked reader is
\* cut off in the source (line 169); what is read through the body is not
\* modelled.
Body(r) ==
    LET tencs == transferEncodings(r) IN
    IF tencs.err # "nil"
    THEN [body |-> [done |-> TRUE, err |-> tencs.err, kind |-> "none", limit |-> 0],
          Headers |-> r.Headers]
    ELSE IF Len(tencs.encs) > 0
    THEN LET after == [r EXCEPT !.Headers = HeadersRemove(r.Headers, S_transfer_encoding)]
         IN [body |-> [done |-> TRUE, err |-> "nil", kind |-> "chunked",
                       limit |-> contentLength(after)],
             Headers |-> after.Headers]
    ELSE [body |-> [done |-> TRUE, err |-> "nil", kind |-> "identity",
                    limit |-> contentLength(r)],
          Headers |-> r.Headers]


\* ---- the identity body reader (bodyReader) ----

\* newBodyReader: the connection behind io.LimitReader.  N is what the
\* LimitedReader still allows; got is what Read has handed to its caller
newBodyReader(length) ==
    [open |-> TRUE, N |-> length, bytesConsumed |-> 0, contentLength |-> length,
     got |-> <<>>, err |-> "nil", closed |-> FALSE]

\* io.LimitedReader.Read on the connection.  src is all the client sends,
\* taken the number of bytes taken from it so far, plen the length of p and
\* k the most bytes the connection hands over in one read
LimitedRead(N, src, taken, plen, k) ==
    IF N <= 0 THEN [n |-> 0, err |-> "EOF"]
    ELSE IF taken >= Len(src) THEN [n |-> 0, err |-> "EOF"]
    ELSE [n |-> Min(Min(plen, N), Min(k, Len(src) - taken)), err |-> "nil"]

\* Read that hands on what the limited reader returned
bodyReaderRead_NoCheck(br, src, taken, plen, k) ==
    LET r == LimitedRead(br.N, src, taken, plen, k) IN
    [br |-> [br EXCEPT !.N = @ - r.n,
                       !.bytesConsumed = @ + r.n,
                       !.got = @ \o SubSeq(src, taken + 1, taken + r.n),
                       !.err = r.err],
     taken |-> taken + r.n]

\* bodyReader.Read (lines 15-24): the reader afterwards and the number of
\* bytes taken from the connection
bodyReaderRead(br, src, taken, plen, k) ==
    LET r == LimitedRead(br.N, src, taken, plen, k) IN
    IF r.err = "EOF" /\ br.bytesConsumed + r.n < br.contentLength
    THEN [br |-> [br EXCEPT !.N = @ - r.n,
                            !.bytesConsumed = @ + r.n,
                            !.err = "incomplete request"],
          taken |-> taken + r.n]
    ELSE [br |-> [br EXCEPT !.N = @ - r.n,
                            !.bytesConsumed = @ + r.n,
                            !.got = @ \o SubSeq(src, taken + 1, taken + r.n),
                            !.err = r.err],
          taken |-> taken + r.n]

\* bodyReader.Close (lines 28-31): io.Copy reads the limited reader until
\* it reports EOF and throws the bytes away
bodyReaderClose(br, src, taken) ==
    LET n == IF br.N <= 0 THEN 0 ELSE Min(br.N, Len(src) - taken) IN
    [br |-> [br EXCEPT !.N = @ - n, !.closed = TRUE], taken |-> taken + n]

\* Request.Body for a request without Transfer-Encoding: a body reader
\* over the reader the request was parsed from, made anew by every call
IdentityBody(r) == newBodyReader(contentLength(r))

----------------------------------------------------------------------------
\* One route tree driven on its own: routes are added, paths are matched.

P_u == <<"/", "u">>
P_u_a == <<"/", "u", "/", "a">>
P_u_i == <<"/", "u", "/", ":", "i">>
P_u_a_b == <<"/", "u", "/", "a", "/", "b">>
P_u_j_k == <<"/", "u", "/", ":", "j", "/", "k">>
P_s_p == <<"/", "s", "/", "*", "p">>
P_u_7 == <<"/", "u", "/", "7">>
P_u_7_k == <<"/", "u", "/", "7", "/", "k">>
P_u_a_k == <<"/", "u", "/", "a", "/", "k">>
P_s_c_m == <<"/", "s", "/", "c", "/", "m">>
P_s_c__m == <<"/", "s", "/", "c", "/", "/", "m", "/">>
P_u__a == <<"/", "u", "/", "/", "a", "/">>

\* the paths routes are added for
TriePaths == {P_root, P_u_a, P_u_i, P_u_a_b, P_u_j_k, P_s_p}

\* the paths that are matched
TrieTargets ==
    {P_root, P_x, P_u, P_u_a, P_u_7, P_u_a_b, P_u_7_k, P_u_a_k, P_s_c_m, P_s_c__m,
     P_u__a, P_u_i}

\* every part but the one named is as it was made
IdleBut(part) ==
    /\ IdleWriter
    /\ IdleServer
    /\ IdleRouter
    /\ part = "trie" \/ IdleTrie
    /\ part = "headers" \/ IdleHeaders
    /\ part = "stream" \/ IdleStream
    /\ part = "request" \/ IdleRequest
    /\ part = "kept" \/ IdleKept
    /\ part = "listen" \/ IdleListen

InitTrie ==
    /\ IdleBut("trie")
    /\ IdleTrie

\* trie.AddRoute(path, handler)
TrieAddRoute ==
    /\ Len(tadded) < MaxTrieRoutes
    /\ \E path \in TriePaths :
         /\ trie' = AddRoute(trie, path, UserHandler(S_ANY, path))
         /\ tadded' = Append(tadded, path)
    /\ lookup' = NoLookup
    /\ UNCHANGED notTrie

\* handler, params := trie.Match(path)
TrieMatch ==
    /\ \E path \in TrieTargets :
         /\ lookup' = [done |-> TRUE, path |-> path, out |-> Match(trie, path)]
         /\ trie' = TreeAfterMatch(trie, Split(Trim(path, "/"), "/"), 1)
    /\ UNCHANGED tadded
    /\ UNCHANGED notTrie

NextTrie ==
    \/ TrieAddRoute
    \/ TrieMatch

SpecTrie == InitTrie /\ [][NextTrie]_vars

----------------------------------------------------------------------------
\* One Headers value driven on its own: Add, Get, Remove and Size.

H_Ab == <<"A", "b">>
H_aB == <<"a", "B">>
H_c == <<"c">>
H_a_b == <<"a", " ", "b">>
HV_1 == <<"1">>
HV_2 == <<"2", "\t", OBS>>
HV_crlf == <<"1", "\r", "\n", "x", ":", "y">>
HV_del == <<"1", DEL>>

\* the names Add is called with: two spellings of one name, the empty name
\* and a name with a space
AddNames == {H_Ab, H_aB, <<>>, H_a_b}

\* the values Add is called with
AddValues == {HV_1, HV_2, HV_crlf, HV_del}

\* the names Get and Remove are called with
GetNames == AddNames \cup {H_c}

InitHeaders ==
    /\ IdleBut("headers")
    /\ IdleHeaders

\* h.Add(key, value)
HAdd ==
    /\ Len(hlog) < MaxHeaderAdds
    /\ \E key \in AddNames, value \in AddValues :
         /\ hdrs' = HeadersAdd(hdrs, key, value)
         /\ hlog' = Append(hlog, <<key, value>>)
         /\ hcall' = [op |-> "add", key |-> key, value |-> value,
                      before |-> hdrs, got |-> <<>>]
    /\ UNCHANGED notHeaders

\* h.Get(key)
HGet ==
    /\ \E key \in GetNames :
         hcall' = [op |-> "get", key |-> key, value |-> <<>>,
                   before |-> hdrs, got |-> HeadersGet(hdrs, key)]
    /\ UNCHANGED <<hdrs, hlog>>
    /\ UNCHANGED notHeaders

\* h.Size()
HSize ==
    /\ hcall' = [op |-> "size", key |-> <<>>, value |-> <<>>,
                 before |-> hdrs, got |-> Itoa(HeadersSize(hdrs))]
    /\ UNCHANGED <<hdrs, hlog>>
    /\ UNCHANGED notHeaders

NextHeaders ==
    \/ HAdd
    \/ HGet
    \/ HSize

SpecHeaders == InitHeaders /\ [][NextHeaders]_vars

----------------------------------------------------------------------------
\* One stream response: the stream function writes to the pipe and sets
\* trailers, a consumer reads the body through the chunkedReader, and the
\* bytes it has read are decoded by the request-side chunkedReader.

B_hello == <<"H", "e", "l", "l", "o", ",", " ", "W", "o", "r", "l", "d", "!">>
B_zero == <<"0", "\r", "\n", "\r", "\n">>
T_X_A == <<"X", "-", "A">>
T_x_a == <<"x", "-", "a">>
T_B == <<"B">>
TV_1 == <<"1">>
TV_2 == <<"2", " ">>
TV_3 == <<"3">>

\* the byte slices a stream function writes
WriteData == {<<>>, B_zero, B_hello}

\* the trailers a stream function sets
TrailerCalls == {<<T_X_A, TV_1>>, <<T_x_a, TV_2>>, <<T_B, TV_3>>}

\* the errors a stream function returns
StreamErrors == {"stream error", "EOF"}

\* the lengths of the consumer's read buffer
ReadSizes == {1, 5, 64}

\* the trailer names a stream response declares
TrailerLists == {<<>>, <<T_X_A>>}

InitStream ==
    /\ IdleBut("stream")
    /\ \E trailerList \in TrailerLists : NewStreamResponse(trailerList)

\* the stream function calls w.Write(data): the write waits in the pipe
\* until the read side has taken all of it
StreamWrite ==
    /\ ~prod.returned /\ ~pipe.has /\ prod.steps < MaxStreamSteps
    /\ \E data \in WriteData :
         /\ pipe' = [pipe EXCEPT !.has = TRUE, !.data = data]
         /\ sent' = Append(sent, data)
    /\ prod' = [prod EXCEPT !.steps = prod.steps + 1]
    /\ UNCHANGED <<trailers, cr, wire, rdone, dec>>
    /\ UNCHANGED notStream

\* the stream function calls setTrailer(key, value)
StreamSetTrailer ==
    /\ ~prod.returned /\ ~pipe.has /\ prod.steps < MaxStreamSteps
    /\ \E call \in TrailerCalls : trailers' = HeadersAdd(trailers, call[1], call[2])
    /\ prod' = [prod EXCEPT !.steps = prod.steps + 1]
    /\ UNCHANGED <<sent, pipe, cr, wire, rdone, dec>>
    /\ UNCHANGED notStream

\* the stream function returns: pw.CloseWithError(err) for an error, and
\* the deferred pw.Close() otherwise
StreamReturn ==
    /\ ~prod.returned /\ ~pipe.has
    /\ \E ret \in {"nil"} \cup StreamErrors :
         /\ prod' = [prod EXCEPT !.returned = TRUE, !.ret = ret]
         /\ pipe' = [pipe EXCEPT !.err = IF ret = "nil" THEN "EOF" ELSE ret]
    /\ UNCHANGED <<sent, trailers, cr, wire, rdone, dec>>
    /\ UNCHANGED notStream

\* the consumer calls Read on the body with a buffer of some length; a
\* read that reaches the pipe waits for a write or for the close
BodyRead ==
    /\ rdone = "nil"
    /\ Len(cr.buf) > 0 \/ cr.eof \/ pipe.has \/ prod.returned
    /\ \E length \in ReadSizes : \E order \in Orders(DOMAIN trailers) :
         LET got == ChunkedRead(cr, pipe, length, order)
         IN /\ cr' = got.cr
            /\ pipe' = got.pipe
            /\ wire' = wire \o got.out
            /\ rdone' = got.err
    /\ UNCHANGED <<prod, sent, trailers, dec>>
    /\ UNCHANGED notStream

\* the bytes the consumer has read are given to the request-side Decode
ChunkedDecode ==
    /\ rdone # "nil" /\ ~dec.done
    /\ dec' = Decode(wire)
    /\ UNCHANGED <<prod, sent, pipe, trailers, cr, wire, rdone>>
    /\ UNCHANGED notStream

NextStream ==
    \/ StreamWrite
    \/ StreamSetTrailer
    \/ StreamReturn
    \/ BodyRead
    \/ ChunkedDecode

SpecStream == InitStream /\ [][NextStream]_vars

----------------------------------------------------------------------------
\* The parser driven on its own: a reader gives the bytes of one request,
\* RequestFromReader is called, and Body is called on what it returned.

T_a_query == <<"/", "a", "?", "x", "=", "1">>
T_bad_escape == <<"/", "?", "a", "=", "%", "z", "z">>
T_a_b == <<"/", "a", " ", "b">>
M_FOO == <<"F", "O", "O">>
FV_h == <<" ", "h">>
FV_g == <<" ", "g">>
FV_2 == <<" ", "2">>
FV_x == <<" ", "x">>
FV_gzip == <<" ", "g", "z", "i", "p">>
FV_GZip_chunked == <<" ", "G", "Z", "i", "p", ",", " ", "c", "h", "u", "n", "k", "e", "d">>
FV_chunked_deflate == <<" ", "C", "h", "u", "n", "k", "e", "d", ",", "d", "e", "f", "l", "a", "t", "e">>
FV_chunked == <<" ", "c", "h", "u", "n", "k", "e", "d">>
B_body == <<"h", "i">>

\* the request lines: method, target and version, and whether an empty
\* line comes before them
StartLines ==
    { [blank |-> FALSE, method |-> S_GET, target |-> P_root, version |-> S_HTTP11],
      [blank |-> FALSE, method |-> S_POST, target |-> T_a_query, version |-> S_HTTP11],
      [blank |-> TRUE, method |-> S_GET, target |-> P_root, version |-> S_HTTP11],
      [blank |-> FALSE, method |-> M_FOO, target |-> P_root, version |-> S_HTTP11],
      [blank |-> FALSE, method |-> S_GET, target |-> P_root, version |-> S_HTTP10],
      [blank |-> FALSE, method |-> S_GET, target |-> T_bad_escape, version |-> S_HTTP11],
      [blank |-> FALSE, method |-> S_GET, target |-> T_a_b, version |-> S_HTTP11] }

\* the field lines: a name, what stands between it and the colon, and
\* what follows the colon
FieldLines ==
    { [name |-> S_Host, gap |-> <<>>, value |-> FV_h],
      [name |-> S_host, gap |-> <<>>, value |-> FV_g],
      [name |-> S_Host, gap |-> <<" ">>, value |-> FV_h],
      [name |-> S_Content_Length, gap |-> <<>>, value |-> FV_2],
      [name |-> S_Content_Length, gap |-> <<>>, value |-> FV_x],
      [name |-> S_Transfer_Encoding, gap |-> <<>>, value |-> FV_gzip],
      [name |-> S_Transfer_Encoding, gap |-> <<>>, value |-> FV_GZip_chunked],
      [name |-> S_transfer_encoding, gap |-> <<>>, value |-> FV_chunked_deflate],
      [name |-> S_Transfer_Encoding, gap |-> <<>>, value |-> FV_chunked] }

RECURSIVE FieldText(_)
FieldText(fields) ==
    IF fields = <<>> THEN <<>>
    ELSE Head(fields).name \o Head(fields).gap \o <<":">> \o Head(fields).value \o CRLF
         \o FieldText(Tail(fields))

\* the bytes of a request made of these parts, with a body after them
RequestText(in) ==
    (IF in.blank THEN CRLF ELSE <<>>)
    \o in.method \o <<" ">> \o in.target \o <<" ">> \o in.version \o CRLF
    \o FieldText(in.fields)
    \o (IF in.complete THEN CRLF ELSE <<>>)
    \o B_body

RECURSIVE FieldSeqs(_)
FieldSeqs(n) ==
    IF n = 0 THEN {<<>>}
    ELSE FieldSeqs(n - 1) \cup {Append(fs, f) : fs \in FieldSeqs(n - 1), f \in FieldLines}

\* the requests a reader gives
RequestInputs ==
    { [blank |-> st.blank, method |-> st.method, target |-> st.target,
       version |-> st.version, fields |-> fs, complete |-> c] :
        st \in StartLines, fs \in FieldSeqs(MaxFieldLines), c \in BOOLEAN }

InitRequest ==
    /\ IdleBut("request")
    /\ IdleRequest

\* req, err := RequestFromReader(reader)
RequestParse ==
    /\ ~preq.done
    /\ \E in \in RequestInputs :
         /\ rin' = in
         /\ preq' = RequestFromReader(RequestText(in))
    /\ UNCHANGED pbody
    /\ UNCHANGED notRequest

\* body, err := req.Body()
RequestBody ==
    /\ preq.done /\ preq.err = "nil" /\ ~pbody.done
    /\ pbody' = Body(preq).body
    /\ preq' = [preq EXCEPT !.Headers = Body(preq).Headers]
    /\ UNCHANGED rin
    /\ UNCHANGED notRequest

NextRequest ==
    \/ RequestParse
    \/ RequestBody

SpecRequest == InitRequest /\ [][NextRequest]_vars

----------------------------------------------------------------------------
\* One kept-alive connection as a stream of bytes: a request is parsed from
\* it, the handler may take the body, read from it and close it, and the
\* connection handler drains the body before it parses the next request.

K_POST_line == <<"P", "O", "S", "T", " ", "/", " ", "H", "T", "T", "P", "/", "1", ".", "1">>
K_1 == <<" ", "1">>
K_3 == <<" ", "3">>

\* the largest number of requests the client sends before it stops
MaxKeptRequests == 2

\* the most bytes the connection hands over in one read
MaxGiven == 2

\* what the client may send as one request: the value of Content-Length,
\* empty for a request without the header, and the bytes after the headers
KeptRequests ==
    { [cl |-> <<>>, sent |-> <<>>],
      [cl |-> FV_2, sent |-> B_body],
      [cl |-> K_3, sent |-> B_body],
      [cl |-> K_1, sent |-> B_body] }

KeptText(rq) ==
    K_POST_line \o CRLF
    \o S_Host \o <<":">> \o FV_h \o CRLF
    \o (IF rq.cl = <<>> THEN <<>> ELSE S_Content_Length \o <<":">> \o rq.cl \o CRLF)
    \o CRLF
    \o rq.sent

RECURSIVE KeptWire(_)
KeptWire(in) == IF in = <<>> THEN <<>> ELSE KeptText(Head(in)) \o KeptWire(Tail(in))

KeptInputs ==
    UNION { [1..n -> KeptRequests] : n \in 1..MaxKeptRequests }

\* the lengths of the slices a handler reads into
KeptReadSizes == {1, 2, 64}

InitKept ==
    /\ IdleBut("kept")
    /\ kin \in KeptInputs
    /\ kpos = 0
    /\ kreq = [at |-> 0, r |-> NoParse]
    /\ kbody = NoBodyReader
    /\ kcyc = <<>>
    /\ kpc = "parse"

\* req, err := request.RequestFromReader(conn) (server.go line 94); after
\* an error the connection is given up, and what was taken from it is no
\* longer looked at
KeptParse ==
    /\ kpc = "parse"
    /\ LET r == RequestFromReader(SubSeq(KeptWire(kin), kpos + 1, Len(KeptWire(kin)))) IN
       /\ kreq' = [at |-> kpos, r |-> r]
       /\ IF r.err = "nil"
          THEN /\ kpos' = kpos + r.bodyAt - 1
               /\ kpc' = "handle"
          ELSE /\ kpc' = "done"
               /\ UNCHANGED kpos
    /\ UNCHANGED <<kin, kbody, kcyc>>
    /\ UNCHANGED notKept

\* the handler calls req.Body()
KeptBody ==
    /\ kpc = "handle"
    /\ ~kbody.open
    /\ kbody' = IdentityBody(kreq.r)
    /\ UNCHANGED <<kin, kpos, kreq, kcyc, kpc>>
    /\ UNCHANGED notKept

\* the handler reads from the body
KeptRead ==
    /\ kpc = "handle"
    /\ kbody.open
    /\ kbody.err = "nil"
    /\ \E plen \in KeptReadSizes, k \in 1..MaxGiven :
         LET rd == bodyReaderRead(kbody, KeptWire(kin), kpos, plen, k) IN
         /\ kbody' = rd.br
         /\ kpos' = rd.taken
    /\ UNCHANGED <<kin, kreq, kcyc, kpc>>
    /\ UNCHANGED notKept

\* the handler closes the body
KeptClose ==
    /\ kpc = "handle"
    /\ kbody.open
    /\ ~kbody.closed
    /\ LET cl == bodyReaderClose(kbody, KeptWire(kin), kpos) IN
       /\ kbody' = cl.br
       /\ kpos' = cl.taken
    /\ UNCHANGED <<kin, kreq, kcyc, kpc>>
    /\ UNCHANGED notKept

\* the handler has returned and the response is written: b, _ := req.Body()
\* and b.Close() (server.go lines 164-165), and the loop starts again
KeptDrain ==
    /\ kpc = "handle"
    /\ LET cl == bodyReaderClose(IdentityBody(kreq.r), KeptWire(kin), kpos) IN
       /\ kpos' = cl.taken
       /\ kcyc' = Append(kcyc, [at |-> kreq.at,
                                bodyAt |-> kreq.at + kreq.r.bodyAt - 1,
                                length |-> contentLength(kreq.r),
                                read |-> Len(kbody.got),
                                closed |-> kbody.closed,
                                next |-> cl.taken])
    /\ kbody' = NoBodyReader
    /\ kpc' = "parse"
    /\ UNCHANGED <<kin, kreq>>
    /\ UNCHANGED notKept

NextKept ==
    \/ KeptParse
    \/ KeptBody
    \/ KeptRead
    \/ KeptClose
    \/ KeptDrain

SpecKept == InitKept /\ [][NextKept]_vars

\* the response's body is given up before it was read to its end: the
\* router takes it off the response to a HEAD request, the server replaces
\* the response by a 304, or a write to the connection failed; the read
\* side of the pipe stays open and nothing reads it any more
BodyDrop ==
    /\ rdone = "nil"
    /\ rdone' = "dropped"
    /\ UNCHANGED <<prod, sent, pipe, trailers, cr, wire, dec>>
    /\ UNCHANGED notStream

NextProducer ==
    \/ StreamWrite
    \/ StreamSetTrailer
    \/ StreamReturn
    \/ BodyRead
    \/ BodyDrop

\* the goroutine of the stream function is scheduled whenever it can take
\* a step and the stream function is one that returns; a consumer that has
\* not given the body up goes on reading
SpecProducer ==
    /\ InitStream
    /\ [][NextProducer]_vars
    /\ WF_vars(StreamReturn)
    /\ WF_vars(BodyRead)

----------------------------------------------------------------------------
\* The accept loop of the server and a caller of Close, step by step: each
\* access to the closed mark and to the listener is a step of its own.

\* the most connections that are accepted
MaxConns == 2

\* Close with its two statements in the other order
Close_ListenerFirst(sv, step) ==
    IF step = 1 THEN [sv EXCEPT !.listener = "closed"] ELSE [sv EXCEPT !.closed = TRUE]

\* Close: s.closed.Store(true) is its first statement and
\* s.listener.Close() its second
Close(sv, step) ==
    IF step = 1 THEN [sv EXCEPT !.closed = TRUE] ELSE [sv EXCEPT !.listener = "closed"]

InitListen ==
    /\ IdleBut("listen")
    /\ IdleListen

\* listen: net.Listen succeeded and s.listener is set
ListenStart ==
    /\ lpc = "start"
    /\ srv' = [srv EXCEPT !.listener = "open"]
    /\ lpc' = "accept"
    /\ UNCHANGED <<lcause, lret, cpc, accepted>>
    /\ UNCHANGED notListen

\* s.listener.Accept() returns a connection; a closed listener gives none
AcceptConn ==
    /\ lpc = "accept"
    /\ srv.listener = "open"
    /\ Len(accepted) < MaxConns
    /\ accepted' = Append(accepted, [state |-> "accepted", late |-> cpc = "returned"])
    /\ lpc' = "spawn"
    /\ UNCHANGED <<srv, lcause, lret, cpc>>
    /\ UNCHANGED notListen

\* s.listener.Accept() returns an error: the listener is closed, or the
\* accept failed for a reason of its own while the listener is open
AcceptFails ==
    /\ lpc = "accept"
    /\ lcause' = IF srv.listener = "closed" THEN "closed" ELSE "transient"
    /\ lpc' = "erred"
    /\ UNCHANGED <<srv, lret, cpc, accepted>>
    /\ UNCHANGED notListen

\* if !s.closed.Load() { log; return err }; break; return nil
CheckClosed ==
    /\ lpc = "erred"
    /\ lret' = IF ~srv.closed THEN "err" ELSE "nil"
    /\ lpc' = "returned"
    /\ UNCHANGED <<srv, lcause, cpc, accepted>>
    /\ UNCHANGED notListen

\* go s.handle(conn), and back to Accept
Spawn ==
    /\ lpc = "spawn"
    /\ accepted' = [accepted EXCEPT ![Len(accepted)].state = "handling"]
    /\ lpc' = "accept"
    /\ UNCHANGED <<srv, lcause, lret, cpc>>
    /\ UNCHANGED notListen

\* the handler of a connection has written its response
HandleWritten ==
    /\ \E i \in DOMAIN accepted :
         /\ accepted[i].state = "handling"
         /\ accepted' = [accepted EXCEPT ![i].state = "written"]
    /\ UNCHANGED <<srv, lpc, lcause, lret, cpc>>
    /\ UNCHANGED notListen

\* handle returns and its deferred conn.Close() runs
HandleReturns ==
    /\ \E i \in DOMAIN accepted :
         /\ accepted[i].state = "written"
         /\ accepted' = [accepted EXCEPT ![i].state = "closed"]
    /\ UNCHANGED <<srv, lpc, lcause, lret, cpc>>
    /\ UNCHANGED notListen

\* the first statement of Close
CloseFirst ==
    /\ cpc = "idle"
    /\ srv.listener # "nil"
    /\ srv' = Close(srv, 1)
    /\ cpc' = "first"
    /\ UNCHANGED <<lpc, lcause, lret, accepted>>
    /\ UNCHANGED notListen

\* the second statement of Close, and its return
CloseSecond ==
    /\ cpc = "first"
    /\ srv' = Close(srv, 2)
    /\ cpc' = "returned"
    /\ UNCHANGED <<lpc, lcause, lret, accepted>>
    /\ UNCHANGED notListen

NextListen ==
    \/ ListenStart
    \/ AcceptConn
    \/ AcceptFails
    \/ CheckClosed
    \/ Spawn
    \/ HandleWritten
    \/ HandleReturns
    \/ CloseFirst
    \/ CloseSecond

SpecListen == InitListen /\ [][NextListen]_vars

----------------------------------------------------------------------------
\* Claims about the response writer.

\* the state that follows each state in the order the claims speak of
StateAfter(st) ==
    CASE st = "status line" -> "headers"
      [] st = "headers" -> "body"
      [] st = "body" -> "done"
      [] OTHER -> "none"

\* the one state in which each operation is accepted
OwnState(op) ==
    CASE op = "WriteStatusLine" -> "status line"
      [] op = "WriteHeaders" -> "headers"
      [] op = "WriteBody" -> "body"
      [] OTHER -> "none"

\* C5: the response writer accepts WriteStatusLine, WriteHeaders, WriteBody
\* only in that order: an operation called in a state other than its own
\* returns an error and leaves the state alone, and the state only ever
\* moves one step along status line -> headers -> body -> done.
C5_WriterStateOrder ==
    wcall.op # "none" =>
        /\ wcall.before # OwnState(wcall.op) =>
                (wcall.err # Nil /\ wcall.after = wcall.before)
        /\ wcall.after # wcall.before =>
                /\ wcall.before = OwnState(wcall.op)
                /\ wcall.err = Nil
                /\ wcall.after = StateAfter(wcall.before)
        /\ rw.state = wcall.after

\* a complete pass was made and a further operation was then rejected
C5_Witness ==
    /\ rw.state = stateDone
    /\ wcall.before = stateDone
    /\ wcall.err # Nil

\* the bytes a response is to put on the wire, its headers in a given order
RECURSIVE HeaderLines(_, _)
HeaderLines(h, order) ==
    IF order = <<>> THEN <<>>
    ELSE Head(order) \o <<":", " ">> \o h[Head(order)] \o <<"\r", "\n">>
         \o HeaderLines(h, Tail(order))

Serialised(r, order) ==
    <<"H", "T", "T", "P", "/", "1", ".", "1", " ">> \o Itoa(r.StatusCode) \o <<" ">>
    \o GetStatusReason(r.StatusCode) \o <<"\r", "\n">>
    \o HeaderLines(r.Headers, order) \o <<"\r", "\n">>
    \o r.Body.data

\* C6: Write puts on the sink the status line, one line per header, a blank
\* line and then the body bytes, in that order and nothing else; without a
\* body the output ends with CRLF CRLF.  While the sink works the output is
\* that whole text, and after a sink failure it is a prefix of it.
C6_WireOrder ==
    wret # "none" =>
        \E order \in Orders(DOMAIN wsnap.Headers) :
            LET full == Serialised(wsnap, order) IN
            /\ IsPrefix(out.data, full)
            /\ ~out.broken =>
                  /\ wret = Nil
                  /\ out.data = full
                  /\ wsnap.Body.nil =>
                        SubSeq(full, Len(full) - 3, Len(full)) = <<"\r", "\n", "\r", "\n">>

\* a response with headers and a body was written in full
C6_Witness ==
    /\ wret = Nil
    /\ ~out.broken
    /\ DOMAIN wsnap.Headers # {}
    /\ wsnap.Body.data # <<>>
    /\ Len(out.data) > 20

----------------------------------------------------------------------------
\* Claims about the connection handler.

\* how often handle did something for request n
Count(ev, n) == Cardinality({i \in DOMAIN log : log[i].ev = ev /\ log[i].n = n})

\* the last response handed to Write is on the wire in full
OnWireInFull ==
    \E order \in Orders(DOMAIN lastResp.Headers) : written = Serialised(lastResp, order)

\* what is on the wire is the last response handed to Write as far as the
\* connection took it: all of it unless the connection failed
OnWire ==
    \E order \in Orders(DOMAIN lastResp.Headers) :
        /\ IsPrefix(written, Serialised(lastResp, order))
        /\ ~conn.sink.broken => written = Serialised(lastResp, order)

\* C1: on one connection the response to request i is on the wire in full,
\* status line, headers and body, before anything of request i+1 is read,
\* and the handler is called at most once for each request.
C1_StrictOrder ==
    /\ (pc = "read" /\ reqNo >= 1) => OnWireInFull
    /\ \A i \in DOMAIN log :
          (log[i].ev = "read" /\ log[i].n > 1) =>
              \E j \in 1..(i - 1) : log[j].ev = "write" /\ log[j].n = log[i].n - 1
    /\ \A n \in 1..MaxRequests : Count("handler", n) <= 1

\* the request asks for the connection to be closed
AsksClose(rq) ==
    /\ <<"c", "o", "n", "n", "e", "c", "t", "i", "o", "n">> \in DOMAIN rq.Headers
    /\ ToLower(TrimSpace(rq.Headers[<<"c", "o", "n", "n", "e", "c", "t", "i", "o", "n">>]))
         = <<"c", "l", "o", "s", "e">>

\* the response of this cycle went out and nothing failed on the way
WrittenWithoutError == cyc.werr = Nil /\ ~conn.sink.broken

\* C2: a further request is read from a connection only if
\* KeepAliveTimeout is not zero, the previous response was written without
\* error and the previous request did not ask for close; in every other
\* case the connection is closed after the response and nothing is read.
C2_KeepAliveGate ==
    /\ (pc = "read" /\ reqNo >= 1) =>
            /\ opts.KeepAliveTimeout # 0
            /\ WrittenWithoutError
            /\ ~AsksClose(req)
    /\ (cyc.phase = "written"
          /\ ~(opts.KeepAliveTimeout # 0 /\ WrittenWithoutError /\ ~AsksClose(req))) =>
            (pc = "done" /\ conn.closed)

\* the request fails parsing or validation, in the words of the claim
FailsValidation(rq) ==
    LET host == <<"h", "o", "s", "t">>
        cl == <<"c", "o", "n", "t", "e", "n", "t", "-", "l", "e", "n", "g", "t", "h">>
        te == <<"t", "r", "a", "n", "s", "f", "e", "r", "-", "e", "n", "c", "o", "d", "i", "n", "g">>
    IN \/ rq.err
       \/ host \notin DOMAIN rq.Headers
       \/ \E i \in DOMAIN rq.Headers[host] : rq.Headers[host][i] = ","
       \/ cl \in DOMAIN rq.Headers /\ te \in DOMAIN rq.Headers
       \/ /\ te \in DOMAIN rq.Headers
          /\ \E c \in Range(Split(rq.Headers[te], ",")) :
                ToLower(TrimSpace(c)) # <<"c", "h", "u", "n", "k", "e", "d">>

C4_Recovery ==
    /\ \A n \in 1..MaxRequests : Count("recovery", n) <= Count("handler", n)
    /\ cyc.phase = "recovered" =>
        /\ Count("recovery", reqNo) = 1
        /\ cyc.fault = "fault"
        /\ lastResp.StatusCode = 500
        /\ lastResp.Body.data = GetStatusReason(500)
        /\ OnWire
        /\ log[Len(log)] = [ev |-> "close", n |-> reqNo]
        /\ pc = "done"
        /\ conn.closed

\* the handler faulted on the second request of a kept-alive connection and
\* the 500 went out in full
C4_Witness ==
    /\ opts.KeepAliveTimeout # 0
    /\ reqNo = 2
    /\ cyc.phase = "recovered"
    /\ ~conn.sink.broken
    /\ Len(written) > 30
    /\ conn.closed

----------------------------------------------------------------------------
\* Claims about the router.

\* the composite handler has been called with a request
Dispatched == rpc = "returned"

\* the path of the last request finds a handler in the tree of a method
Hit(method) ==
    /\ method \in DOMAIN router.trees
    /\ ~Match(router.trees[method], rreq.Target).handler.nil

\* the last request is a CORS preflight, which the router answers before
\* it looks at any route
PreflightRequest ==
    /\ router.corsEnabled
    /\ rreq.Method = <<"O", "P", "T", "I", "O", "N", "S">>
    /\ <<"o", "r", "i", "g", "i", "n">> \in DOMAIN rreq.Headers
    /\ <<"a", "c", "c", "e", "s", "s", "-", "c", "o", "n", "t", "r", "o", "l", "-", "r", "e", "q", "u", "e", "s", "t", "-", "m", "e", "t", "h", "o", "d">> \in DOMAIN rreq.Headers

\* the last request is a HEAD request that only the GET tree can serve
HeadServedByGet ==
    /\ rreq.Method = <<"H", "E", "A", "D">>
    /\ ~Hit(<<"H", "E", "A", "D">>)
    /\ Hit(<<"G", "E", "T">>)

\* C7: a request that is not a preflight, whose path finds no handler in
\* the tree of its own method, is not served by the GET route in place of
\* HEAD and finds nothing in the ANY tree, gets 405 with the body 'Method
\* Not Allowed' if the tree of another method matches the path, and the
\* response of the not-found handler (404 by default) otherwise.
C7_StatusSelection ==
    (/\ Dispatched
     /\ ~PreflightRequest
     /\ ~Hit(rreq.Method)
     /\ ~HeadServedByGet
     /\ ~Hit(<<"A", "N", "Y">>)) =>
        /\ rres.kind = "response"
        /\ IF \E method \in DOMAIN router.trees \ {rreq.Method, <<"A", "N", "Y">>} : Hit(method)
           THEN /\ rres.resp.StatusCode = 405
                /\ rres.resp.Body.data = <<"M", "e", "t", "h", "o", "d", " ", "N", "o", "t", " ", "A", "l", "l", "o", "w", "e", "d">>
                /\ rres.ran = <<>>
           ELSE /\ rres.ran = <<router.notFoundHandler>>
                /\ rres.resp = Call(router.notFoundHandler, rreq)
                /\ router.notFoundHandler = defaultNotFoundHandler =>
                       rres.resp.StatusCode = 404

\* the response the router gives to the last request sent as a GET
AsGet == routingHandler(router, [rreq EXCEPT !.Method = <<"G", "E", "T">>]).resp

\* the names of the header fields CORS puts on the response to an actual
\* request, apart from vary
CorsFields ==
    { <<"a", "c", "c", "e", "s", "s", "-", "c", "o", "n", "t", "r", "o", "l", "-", "a", "l", "l", "o", "w", "-", "o", "r", "i", "g", "i", "n">>,
      <<"a", "c", "c", "e", "s", "s", "-", "c", "o", "n", "t", "r", "o", "l", "-", "e", "x", "p", "o", "s", "e", "-", "h", "e", "a", "d", "e", "r", "s">>,
      <<"a", "c", "c", "e", "s", "s", "-", "c", "o", "n", "t", "r", "o", "l", "-", "a", "l", "l", "o", "w", "-", "c", "r", "e", "d", "e", "n", "t", "i", "a", "l", "s">> }

\* the fields of a header collection that CORS does not decide
Own(h) == [k \in DOMAIN h \ CorsFields |-> h[k]]

\* the CORS policy treats HEAD and GET alike
HeadAllowedLikeGet ==
    \/ ~router.corsEnabled
    \/ (<<"H", "E", "A", "D">> \in Range(router.cors.allowedMethods))
         = (<<"G", "E", "T">> \in Range(router.cors.allowedMethods))

\* C8 as it is worded: a HEAD request for a path with a GET route and no
\* HEAD route runs the GET handler and returns the status and the headers
\* of the GET response without a body; a HEAD route is used when there is
\* one.
C8_HeadEmulation_AsWorded ==
    (Dispatched /\ rreq.Method = <<"H", "E", "A", "D">>) =>
        /\ HeadServedByGet =>
              /\ rres.kind = "response"
              /\ rres.ran = <<Match(router.trees[<<"G", "E", "T">>], rreq.Target).handler>>
              /\ rres.resp.StatusCode = AsGet.StatusCode
              /\ rres.resp.Headers = AsGet.Headers
              /\ rres.resp.Body.nil
        /\ Hit(<<"H", "E", "A", "D">>) =>
              /\ rres.kind = "response"
              /\ rres.ran = <<Match(router.trees[<<"H", "E", "A", "D">>], rreq.Target).handler>>
              /\ rres.resp.Body.data = <<"H", "E", "A", "D">> \o rres.ran[1].id[2]

\* C8: a HEAD request for a path with a GET route and no HEAD route runs
\* the GET handler and returns, without a body, the status of the GET
\* response and the headers the GET handler set; the CORS headers on it
\* are those of a HEAD request, so all headers equal those of the GET
\* response when CORS is off or allows HEAD exactly when it allows GET.
\* A HEAD route is used when there is one.
C8_HeadEmulation ==
    (Dispatched /\ rreq.Method = <<"H", "E", "A", "D">>) =>
        /\ HeadServedByGet =>
              /\ rres.kind = "response"
              /\ rres.ran = <<Match(router.trees[<<"G", "E", "T">>], rreq.Target).handler>>
              /\ rres.resp.StatusCode = AsGet.StatusCode
              /\ Own(rres.resp.Headers) = Own(AsGet.Headers)
              /\ HeadAllowedLikeGet => rres.resp.Headers = AsGet.Headers
              /\ rres.resp.Body.nil
        /\ Hit(<<"H", "E", "A", "D">>) =>
              /\ rres.kind = "response"
              /\ rres.ran = <<Match(router.trees[<<"H", "E", "A", "D">>], rreq.Target).handler>>
              /\ rres.resp.Body.data = <<"H", "E", "A", "D">> \o rres.ran[1].id[2]

\* a cross-origin HEAD request was served by the GET route of a router whose
\* CORS policy allows GET only: the body is gone, content-length is kept and
\* the GET response would carry a CORS header more
C8_Witness ==
    /\ Dispatched
    /\ HeadServedByGet
    /\ router.corsEnabled
    /\ <<"o", "r", "i", "g", "i", "n">> \in DOMAIN rreq.Headers
    /\ rres.resp.Body.nil
    /\ ~AsGet.Body.nil
    /\ <<"c", "o", "n", "t", "e", "n", "t", "-", "l", "e", "n", "g", "t", "h">> \in DOMAIN rres.resp.Headers
    /\ rres.resp.Headers # AsGet.Headers

\* C9: the composite handler returns a response for every request the
\* parser accepts; it never faults.
C9_NeverFaults == Dispatched => rres.kind = "response"

\* what is noted when the middlewares ms are entered in order
RECURSIVE Entered(_)
Entered(ms) ==
    IF ms = <<>> THEN <<>> ELSE <<[ev |-> "enter", m |-> Head(ms)]>> \o Entered(Tail(ms))

\* what is noted when the middlewares ms are left, the last one first
RECURSIVE Left(_)
Left(ms) ==
    IF ms = <<>> THEN <<>> ELSE Left(Tail(ms)) \o <<[ev |-> "exit", m |-> Head(ms)]>>

\* C10: with the middlewares m1..mn in use when Handler() was called, a
\* request the routing handler answers enters m1, ..., mn in this order,
\* then reaches the routing handler, then leaves mn, ..., m1.
C10_MiddlewareOrder ==
    (Dispatched /\ rres.kind = "response") =>
        rres.events = Entered(composite.of) \o <<[ev |-> "route", m |-> ""]>>
                      \o Left(composite.of)

\* a request went through two different middlewares
C10_Witness ==
    /\ Dispatched
    /\ rres.kind = "response"
    /\ composite.of = <<"A", "B">>
    /\ Len(rres.events) = 5
    /\ rres.events[1].m = "A"
    /\ rres.events[5].m = "A"

----------------------------------------------------------------------------
\* Claims about the route tree.

\* the route paths added so far
Added == Range(tadded)

\* the walk the precedence rule prescribes from node n over the segments
\* left: a static child first, the parameter child only without one, the
\* wildcard child only without either, and the wildcard ends the walk
RECURSIVE ByPrecedence(_, _, _)
ByPrecedence(n, left, params) ==
    IF left = <<>> THEN [handler |-> n.handler, params |-> params]
    ELSE IF Head(left) = <<>> THEN ByPrecedence(n, Tail(left), params)
    ELSE IF Head(left) \in DOMAIN n.children
         THEN ByPrecedence(n.children[Head(left)], Tail(left), params)
    ELSE IF ~n.paramChild.nil
         THEN ByPrecedence(n.paramChild, Tail(left),
                           MapPut(params, n.paramName, Head(left)))
    ELSE IF ~n.wildcardChild.nil
         THEN [handler |-> n.wildcardChild.handler,
               params |-> MapPut(params, n.wildcardName, Join(left, <<"/">>))]
    ELSE [handler |-> NilHandler, params |-> <<>>]

\* C11: at every node of the walk a static child is taken first, the
\* parameter child only when no static child matches (the segment is bound
\* under the parameter name), and the wildcard child only when neither
\* matches (the segments left are bound joined with "/" and the walk ends);
\* so with /u/:i and /u/a both added, /u/a is served by the static route,
\* and /s/*p binds p to c/m for /s/c/m
C11_MatchPrecedence ==
    lookup.done =>
        /\ ~lookup.out.fault
        /\ [handler |-> lookup.out.handler, params |-> lookup.out.params]
             = ByPrecedence(trie, Split(Trim(lookup.path, "/"), "/"), <<>>)
        /\ ({P_u_i, P_u_a} \subseteq Added /\ lookup.path = P_u_a
              => /\ lookup.out.handler.id[2] = P_u_a
                 /\ lookup.out.params = <<>>)
        /\ (P_s_p \in Added /\ lookup.path = P_s_c_m
              => /\ lookup.out.handler.id[2] = P_s_p
                 /\ lookup.out.params = MapPut(<<>>, <<"p">>, <<"c", "/", "m">>))

\* /u/a was matched in a tree that has both /u/:i and /u/a, and the static
\* route served it
C11_Witness ==
    /\ lookup.done
    /\ {P_u_i, P_u_a} \subseteq Added
    /\ lookup.path = P_u_a
    /\ lookup.out.handler = UserHandler(S_ANY, P_u_a)

\* the segments of a path that are not empty
NonEmpty(segment) == segment # <<>>

Segs(path) == SelectSeq(Split(Trim(path, "/"), "/"), NonEmpty)

IsParam(segment) == Head(segment) = ":"

IsWild(segment) == Head(segment) = "*"

IsStaticRoute(p) == \A i \in DOMAIN Segs(p) : ~IsParam(Segs(p)[i]) /\ ~IsWild(Segs(p)[i])

HasParams(p) ==
    /\ \A i \in DOMAIN Segs(p) : ~IsWild(Segs(p)[i])
    /\ \E i \in DOMAIN Segs(p) : IsParam(Segs(p)[i])

\* the request path r instantiates the route path p: segment by segment,
\* equal where p is static and anything where p has a parameter
Instantiates(r, p) ==
    /\ Len(Segs(r)) = Len(Segs(p))
    /\ \A i \in DOMAIN Segs(p) : IsParam(Segs(p)[i]) \/ Segs(p)[i] = Segs(r)[i]

\* each parameter name of p with the segment of r at its place
Bindings(r, p) ==
    LET at == {i \in DOMAIN Segs(p) : IsParam(Segs(p)[i])}
    IN [name \in {Tail(Segs(p)[i]) : i \in at} |->
            Segs(r)[CHOOSE i \in at : Tail(Segs(p)[i]) = name]]

\* the first n segments of p and q lead to the same node of the tree
SameSlots(p, q, n) ==
    \A i \in 1..n : \/ Segs(p)[i] = Segs(q)[i]
                     \/ (IsParam(Segs(p)[i]) /\ IsParam(Segs(q)[i]))

\* some added route has a static segment equal to the segment of r at a
\* node where p has a parameter
Shadowed(r, p) ==
    \E q \in Added : \E k \in DOMAIN Segs(p) :
        /\ IsParam(Segs(p)[k])
        /\ Len(Segs(q)) >= k
        /\ SameSlots(p, q, k - 1)
        /\ ~IsParam(Segs(q)[k]) /\ ~IsWild(Segs(q)[k])
        /\ Segs(q)[k] = Segs(r)[k]

\* some added route gives another name to a parameter of p
Renamed(p) ==
    \E q \in Added : \E k \in DOMAIN Segs(p) :
        /\ IsParam(Segs(p)[k])
        /\ Len(Segs(q)) >= k
        /\ SameSlots(p, q, k - 1)
        /\ IsParam(Segs(q)[k])
        /\ Segs(q)[k] # Segs(p)[k]

ServedBy(p, params) ==
    /\ lookup.out.handler = UserHandler(S_ANY, p)
    /\ lookup.out.params = params

\* C12 as it is worded: whatever routes are added, matching an added static
\* path returns its handler with no parameters, and matching a path that
\* instantiates an added path with parameters returns that route's handler
\* with each parameter bound to the segment of the request
C12_AddedRoutesMatch_AsWorded ==
    lookup.done =>
        \A p \in Added :
            /\ IsStaticRoute(p) /\ lookup.path = p => ServedBy(p, <<>>)
            /\ HasParams(p) /\ Instantiates(lookup.path, p)
                  => ServedBy(p, Bindings(lookup.path, p))

\* C12: whatever routes are added, matching an added static path returns
\* its handler with no parameters; matching a path that instantiates an
\* added path with parameters returns that route's handler with each
\* parameter bound to the segment of the request, unless another added
\* route has a static segment equal to the request's at one of the
\* parameters, or names one of the parameters differently
C12_AddedRoutesMatch ==
    lookup.done =>
        \A p \in Added :
            /\ IsStaticRoute(p) /\ lookup.path = p => ServedBy(p, <<>>)
            /\ (HasParams(p) /\ Instantiates(lookup.path, p)
                    /\ ~Shadowed(lookup.path, p) /\ ~Renamed(p))
                  => ServedBy(p, Bindings(lookup.path, p))

\* /u/7/k was matched in a tree that has /u/:j/k and the static /u/a/b, and
\* the route with the parameter served it with j bound to 7
C12_Witness ==
    /\ lookup.done
    /\ {P_u_j_k, P_u_a_b} \subseteq Added
    /\ lookup.path = P_u_7_k
    /\ ServedBy(P_u_j_k, MapPut(<<>>, <<"j">>, <<"7">>))

----------------------------------------------------------------------------
\* Claims about the header collection.

BadName(key) == key = <<>> \/ \E i \in DOMAIN key : key[i] \notin TokenChars

BadValue(value) == \E i \in DOMAIN value : value[i] \in {"\r", "\n", DEL}

\* the values added under a name in any spelling, in the order of the calls
RECURSIVE ValuesFor(_, _)
ValuesFor(adds, key) ==
    IF adds = <<>> THEN <<>>
    ELSE LET e == Head(adds)
         IN (IF ToLower(e[1]) = ToLower(key) /\ ~BadName(e[1]) /\ ~BadValue(e[2])
             THEN <<e[2]>> ELSE <<>>) \o ValuesFor(Tail(adds), key)

\* C13: Get of a name returns the values added under that name, in any
\* spelling of its letters, joined with ", " in the order they were added,
\* and the empty text for a name never added
C13_AddThenGet ==
    hcall.op = "get" =>
        /\ hcall.got = Join(ValuesFor(hlog, hcall.key), <<",", " ">>)
        /\ (\A i \in DOMAIN hlog : ToLower(hlog[i][1]) # ToLower(hcall.key))
              => hcall.got = <<>>

\* three values were added under two spellings of one name, and Get under
\* one of them returned the three, joined in order
C13_Witness ==
    /\ hcall.op = "get"
    /\ hcall.key = H_aB
    /\ hlog = << <<H_Ab, HV_1>>, <<H_aB, HV_2>>, <<H_Ab, HV_1>> >>
    /\ hcall.got = HV_1 \o <<",", " ">> \o HV_2 \o <<",", " ">> \o HV_1

\* C14: an Add whose name is empty or has an octet that is no token
\* character, or whose value has an octet outside HTAB, 0x20-0x7E and
\* 0x80-0xFF, changes nothing: Size and every Get are as before the call
C14_InvalidAddIsNoOp ==
    (hcall.op = "add" /\ (BadName(hcall.key) \/ BadValue(hcall.value))) =>
        /\ HeadersSize(hdrs) = HeadersSize(hcall.before)
        /\ \A key \in GetNames : HeadersGet(hdrs, key) = HeadersGet(hcall.before, key)

\* a value with CR LF was added under a valid name that already had a value
C14_Witness ==
    /\ hcall.op = "add"
    /\ hcall.key = H_Ab
    /\ hcall.value = HV_crlf
    /\ HeadersGet(hcall.before, H_aB) = HV_1
    /\ HeadersGet(hdrs, H_aB) = HV_1

----------------------------------------------------------------------------
\* Claims about the stream response and the chunked framing.

\* the bytes of the slices of a sequence, one after the other
RECURSIVE Flatten(_)
Flatten(slices) == IF slices = <<>> THEN <<>> ELSE Head(slices) \o Flatten(Tail(slices))

\* a value without the spaces and tabs around it
Unpadded(value) == TrimRightCutset(TrimLeftCutset(value, {" ", "\t"}), {" ", "\t"})

\* the consumer has read the body to its end and the bytes were decoded
RoundTripDone == dec.done /\ rdone = "EOF"

\* C15 as it is worded: decoding the bytes the response-side chunked
\* writer produced, whatever the lengths of the reads, gives the bytes the
\* stream function wrote and the same trailer names and values
C15_ChunkedRoundTrip_AsWorded ==
    RoundTripDone =>
        /\ dec.err = "nil"
        /\ dec.body = Flatten(sent)
        /\ dec.trailers = trailers

\* C15: decoding the bytes the response-side chunked writer produced,
\* whatever the lengths of the reads, gives the bytes the stream function
\* wrote and the same trailer names, each with its value less the spaces
\* and tabs at its ends (the same value when it has none)
C15_ChunkedRoundTrip ==
    RoundTripDone =>
        /\ dec.err = "nil"
        /\ dec.body = Flatten(sent)
        /\ dec.trailers = [k \in DOMAIN trailers |-> Unpadded(trailers[k])]

\* two writes, one of them longer than a read of the pipe takes and one
\* that looks like the end of a chunked body, and two trailers came back
\* as they were
C15_Witness ==
    /\ RoundTripDone
    /\ sent = <<B_zero, B_hello>>
    /\ dec.body = B_zero \o B_hello
    /\ DOMAIN trailers = {ToLower(T_X_A), ToLower(T_B)}
    /\ dec.trailers = trailers

\* a slice cut into the pieces the pipe hands over, each framed as a chunk
RECURSIVE Framed(_)
Framed(data) ==
    IF data = <<>> THEN <<>>
    ELSE LET n == Min(Len(data), RawSize)
         IN Hex(n) \o CRLF \o SubSeq(data, 1, n) \o CRLF
            \o Framed(SubSeq(data, n + 1, Len(data)))

RECURSIVE Frames(_)
Frames(slices) == IF slices = <<>> THEN <<>> ELSE Framed(Head(slices)) \o Frames(Tail(slices))

\* the zero-chunk, the trailer lines in some order, and the final CRLF
Endings ==
    {<<"0">> \o CRLF \o TrailerLines(trailers, order) \o CRLF :
        order \in Orders(DOMAIN trailers)}

ReadToEnd == rdone # "nil"

\* C17 as it is worded: when the stream function returns an error the
\* pipe is closed with it and reading the body ends with that error and
\* not normally; when it returns no error reading ends normally
C17_StreamError_AsWorded ==
    ReadToEnd =>
        /\ prod.returned
        /\ prod.ret # "nil" => pipe.err = prod.ret /\ rdone = prod.ret /\ ~cr.eof
        /\ prod.ret = "nil" => rdone = "EOF" /\ cr.eof

\* C17: when the stream function returns an error other than io.EOF the
\* pipe is closed with it and reading the body ends with that error and
\* not normally; when it returns no error, or io.EOF, reading ends normally
C17_StreamError ==
    ReadToEnd =>
        /\ prod.returned
        /\ prod.ret \notin {"nil", "EOF"}
              => pipe.err = prod.ret /\ rdone = prod.ret /\ ~cr.eof
        /\ prod.ret \in {"nil", "EOF"} => rdone = "EOF" /\ cr.eof

\* the stream function wrote and then returned an error; the consumer got
\* the chunks of what was written and then that error
C17_Witness ==
    /\ rdone = "stream error"
    /\ prod.ret = "stream error"
    /\ sent = <<B_hello>>
    /\ wire = Frames(sent)

----------------------------------------------------------------------------
\* Claims about the request parser.

\* RequestFromReader returned a request and no error
ParsedOk == preq.done /\ preq.err = "nil"

\* the field lines of the input whose name is this one in some spelling
FieldsNamed(in, name) ==
    {i \in DOMAIN in.fields : ToLower(in.fields[i].name) = ToLower(name)}

\* C18: a request that was parsed without error has a valid request line
\* (a known method, a target without whitespace), valid header names and
\* values, a Host header with exactly one entry, and not both
\* Content-Length and Transfer-Encoding
C18_ParsedRequestValid ==
    ParsedOk =>
        /\ preq.Method \in Methods
        /\ \A i \in DOMAIN preq.Target : preq.Target[i] \notin Whitespace
        /\ \A k \in DOMAIN preq.Headers :
              ~BadName(k) /\ ~BadValue(preq.Headers[k])
        /\ HeadersGet(preq.Headers, S_Host) # <<>>
        /\ Len(Split(HeadersGet(preq.Headers, S_Host), ",")) = 1
        /\ ~(/\ HeadersGet(preq.Headers, S_Content_Length) # <<>>
             /\ HeadersGet(preq.Headers, S_Transfer_Encoding) # <<>>)

\* the values of Transfer-Encoding that list a coding other than chunked
OtherCodingValues == {FV_gzip, FV_GZip_chunked, FV_chunked_deflate}

ListsOtherCoding(in) ==
    \E i \in FieldsNamed(in, S_Transfer_Encoding) : in.fields[i].value \in OtherCodingValues

\* the input is a whole request with a request line and field lines that
\* are well formed
WellFormed(in) ==
    /\ ~in.blank
    /\ in.method \in Methods
    /\ in.target \in {P_root, T_a_query}
    /\ in.version = S_HTTP11
    /\ \A i \in DOMAIN in.fields : in.fields[i].gap = <<>>
    /\ in.complete

\* C19: a well-formed request whose Transfer-Encoding lists a coding
\* other than chunked, in any case, alone or with chunked, is parsed
\* without error, its request line and headers can be read, and the error
\* "transfer encoding not implemented" is what Body returns
C19_LazyFraming ==
    (preq.done /\ WellFormed(rin) /\ ListsOtherCoding(rin)) =>
        /\ preq.err = "nil"
        /\ preq.Method = rin.method
        /\ preq.Target = rin.target
        /\ HeadersGet(preq.Headers, S_Transfer_Encoding) # <<>>
        /\ pbody.done => pbody.err = "transfer encoding not implemented"

\* a request with Transfer-Encoding: GZip, chunked and a Host was parsed,
\* and Body returned the error
C19_Witness ==
    /\ ParsedOk
    /\ rin.fields = << [name |-> S_Host, gap |-> <<>>, value |-> FV_h],
                       [name |-> S_Transfer_Encoding, gap |-> <<>>,
                        value |-> FV_GZip_chunked] >>
    /\ HeadersGet(preq.Headers, S_host) = <<"h">>
    /\ pbody.done
    /\ pbody.err = "transfer encoding not implemented"

\* the length of the body as the Content-Length of the input gives it: a
\* single numeric value, and 0 otherwise
DeclaredLength(in) ==
    IF /\ Cardinality(FieldsNamed(in, S_Content_Length)) = 1
       /\ \A i \in FieldsNamed(in, S_Content_Length) : in.fields[i].value = FV_2
    THEN 2 ELSE 0

\* C20: for a request parsed without error that has no Transfer-Encoding
\* header, Body returns no error and an identity reader capped at the
\* Content-Length when that is there and numeric, and at zero otherwise
C20_BodyWithoutTransferEncoding ==
    (ParsedOk /\ pbody.done /\ FieldsNamed(rin, S_Transfer_Encoding) = {}) =>
        /\ pbody.err = "nil"
        /\ pbody.kind = "identity"
        /\ pbody.limit = DeclaredLength(rin)

----------------------------------------------------------------------------
\* Claims about the body of a request and the kept-alive connection.

\* the bytes of the connection
Sent == KeptWire(kin)

\* C21: the identity body reader hands to its caller no more bytes than
\* Content-Length says, even when the connection holds more, and it reports
\* the end of the body as EOF only when that many bytes were handed over:
\* when the connection ends before, the read returns the error 'incomplete
\* request'.
C21_IdentityBodyBound ==
    kbody.open =>
        /\ Len(kbody.got) <= kbody.contentLength
        /\ kbody.err = "EOF" => Len(kbody.got) = kbody.contentLength
        /\ (kbody.err # "nil" /\ Len(kbody.got) < kbody.contentLength)
               => kbody.err = "incomplete request"

\* Content-Length is 3 and the client stops after two bytes: both were
\* read, and the read at the end of the connection reported the error
C21_Witness ==
    /\ kbody.open /\ ~kbody.closed
    /\ kbody.contentLength = 3
    /\ kbody.got = B_body
    /\ kpos = Len(Sent)
    /\ kbody.err = "incomplete request"

\* where the first empty line after the first from bytes of src ends
HeadEnd(src, from) ==
    LET ends == {j \in (from + 2)..Len(src) :
                    /\ src[j - 1] = "\r" /\ src[j] = "\n"
                    /\ \/ j - 2 = from
                       \/ (j - 4 >= from /\ src[j - 3] = "\r" /\ src[j - 2] = "\n")}
    IN IF ends = {} THEN 0 ELSE CHOOSE j \in ends : \A k \in ends : j <= k

\* C23: when RequestFromReader has returned without an error, the bytes
\* taken from the connection are those up to and including the empty line
\* that ends the headers, and a body reader made on the same connection
\* reads the bytes that follow that line, from the first one on, however
\* many bytes the connection hands over in one read.
C23_NoOverConsumption ==
    /\ (kpc = "handle" /\ ~kbody.open)
           => kpos = HeadEnd(Sent, kreq.at)
    /\ (kpc = "handle" /\ kbody.open)
           => kbody.got = SubSeq(Sent, HeadEnd(Sent, kreq.at) + 1,
                                 HeadEnd(Sent, kreq.at) + Len(kbody.got))

\* the second request of a connection has been parsed, body bytes came
\* before and after its headers, and its first body byte has been read
C23_Witness ==
    /\ kpc = "handle"
    /\ Len(kcyc) = 1
    /\ kreq.at > 0
    /\ kbody.open
    /\ kbody.got = <<"h">>
    /\ kpos = HeadEnd(Sent, kreq.at) + 1
    /\ kpos < Len(Sent)

\* C22: after every request cycle of a kept-alive connection the next
\* request is parsed from the first byte after the body of the request
\* before, as its Content-Length frames it, whether the handler read
\* nothing, a part or all of that body.
C22_CleanBoundary ==
    \A i \in DOMAIN kcyc :
        kcyc[i].next = Min(kcyc[i].bodyAt + kcyc[i].length, Len(Sent))

----------------------------------------------------------------------------
\* Claims about what the connection handler puts on a response.

\* the 304 Not Modified that replaces a response
NotModified == WithStatusCode(NewBaseResponse, StatusNotModified)

\* C24: every response that the connection handler writes for a request
\* that passed validation has a date header with one value, the time the
\* server stamped: a date header the user handler set is replaced and not
\* added to.
C24_DateStamped ==
    cyc.phase = "written" =>
        /\ S_date \in DOMAIN lastResp.Headers
        /\ lastResp.Headers[S_date] = TimeNow

\* the response written is the one the handler returned
HandlerProduced ==
    /\ lastResp.StatusCode = cyc.ret.StatusCode
    /\ lastResp.Body = cyc.ret.Body

\* C25: when the connection handler writes the response a handler produced
\* and closes the connection after it, because keep-alive is off or because
\* the request carried Connection: close, the response has the header
\* connection: close.
C25_ConnectionClose ==
    (/\ cyc.phase = "written"
     /\ HandlerProduced
     /\ (opts.KeepAliveTimeout = 0 \/ AsksClose(req)))
        => (conn.closed => HeadersGet(lastResp.Headers, S_connection) = S_close)

\* the handler's response has an ETag header, the request has an
\* If-None-Match header, and the two values are equal byte for byte
TagsMatch ==
    /\ S_etag \in DOMAIN cyc.ret.Headers
    /\ S_if_none_match \in DOMAIN req.Headers
    /\ cyc.ret.Headers[S_etag] = req.Headers[S_if_none_match]

\* C26 as it is worded: when the handler's response has an ETag header and
\* the request an If-None-Match header with the same value, a 304 Not
\* Modified without body is written, and in every other case the handler's
\* response with its own status and body.
C26_Conditional_AsWorded ==
    cyc.phase = "written" =>
        IF TagsMatch
        THEN lastResp.StatusCode = StatusNotModified /\ lastResp.Body.nil
        ELSE HandlerProduced

\* C26: when the handler's response has an ETag header and the request an
\* If-None-Match header, both with a value that is not empty, and the two
\* values are equal, a 304 Not Modified without body is written; in every
\* other case, a header with an empty value counting as no header, the
\* handler's response is written with its own status and body.
C26_Conditional ==
    cyc.phase = "written" =>
        IF TagsMatch /\ cyc.ret.Headers[S_etag] # <<>>
        THEN lastResp = NotModified
        ELSE HandlerProduced

\* the handler returned 200 with a body and the ETag the request named, and
\* a 304 without body is on the wire in full
C26_Witness ==
    /\ cyc.phase = "written"
    /\ cyc.ret.StatusCode = StatusOK
    /\ cyc.ret.Body.data = B_hi
    /\ TagsMatch
    /\ req.Headers[S_if_none_match] = V_e1
    /\ lastResp = NotModified
    /\ OnWireInFull

\* C27: with keep-alive on, when the idle deadline passes while the server
\* waits for the next request, the connection is closed and no response is
\* sent on it: no 400 Bad Request is written, nor is writing one attempted.
C27_IdleTimeoutSilent ==
    cyc.timeout =>
        /\ conn.closed
        /\ pc = "done"
        /\ written = <<>>
        /\ Count("write", reqNo) = 0

----------------------------------------------------------------------------
\* Claims about errors of the response writer.

\* C28: when the sink fails while the status line, a header line, the blank
\* line or the body is written, the operation of the writer returns an
\* error and the state of the writer does not advance, and Write returns
\* the error and does nothing of the later phases.
C28_SinkErrorsPropagate ==
    /\ (wcall.op # "none" /\ sink.fails > 0) =>
            /\ wcall.err # Nil
            /\ wcall.after = wcall.before
    /\ (wret # "none" /\ out.fails > 0) =>
            /\ wret # Nil
            /\ out.fails = 1

\* the errors that tell a caller it used the writer out of order
StateErrors == {ErrStatusLineAlreadyWritten, ErrHeadersAlreadyWritten, ErrNoBodyState}

\* C29: when WriteStatusLine, WriteHeaders or WriteBody is refused because
\* the writer is not in the state of that operation, the sink is not
\* written to, not one byte is added to it, and the state of the writer
\* stays what it was.
C29_StateViolationOffWire ==
    (wcall.op # "none" /\ wcall.before # OwnState(wcall.op)) =>
        /\ wcall.err \in StateErrors
        /\ ~wcall.wrote
        /\ sink.fails = 0
        /\ rw.state = wcall.before

\* status line and headers are on a working sink, and a second
\* WriteStatusLine has been refused
C29_Witness ==
    /\ wcall.op = "WriteStatusLine"
    /\ wcall.before = stateBody
    /\ wcall.err = ErrStatusLineAlreadyWritten
    /\ sink.data # <<>>
    /\ ~sink.broken

\* the status line, the header lines and the blank line of a response
HeadOf(r, order) ==
    <<"H", "T", "T", "P", "/", "1", ".", "1", " ">> \o Itoa(r.StatusCode) \o <<" ">>
    \o GetStatusReason(r.StatusCode) \o <<"\r", "\n">>
    \o HeaderLines(r.Headers, order) \o <<"\r", "\n">>

\* C30: once Write has completed on a response that has a body, a further
\* Write of the same response puts no body byte on its sink: what it writes
\* is the status line, the headers and the blank line, or a part of them
\* when the sink fails.
C30_BodyWrittenOnce ==
    [][(wret = Nil /\ ~wsnap.Body.nil /\ out' # out)
          => \E order \in Orders(DOMAIN wresp.Headers) :
                 IsPrefix(out'.data, HeadOf(wresp, order))]_vars

\* the text response 'hi' has been written twice by Write and by nothing
\* else: the second Write found the body read to its end and put the head
\* of the response on its sink
C30_Witness ==
    /\ wcall = NoCall
    /\ wret = Nil
    /\ HeadersGet(wsnap.Headers, S_content_length) = <<"2">>
    /\ wsnap.Body = Reader(<<>>)
    /\ \E order \in Orders(DOMAIN wsnap.Headers) : out.data = HeadOf(wsnap, order)

----------------------------------------------------------------------------
\* Claims about the end of a streaming response and its producer.

\* the bytes read are the chunks of the writes and then the zero-chunk, the
\* trailers set and the final CRLF
Terminated == \E ending \in Endings : wire = Frames(sent) \o ending

\* C31 as it is worded: when the stream function has completed, normally
\* or with an error, and the body was read to its end, the bytes read end
\* with the zero-chunk, the trailers set so far and the final CRLF, after
\* the last data chunk
C31_BodyTerminated_AsWorded == (prod.returned /\ ReadToEnd) => Terminated

\* C31: when the stream function has completed without an error, or with
\* io.EOF, and the body was read to its end, the bytes read end with the
\* zero-chunk, the trailers set so far and the final CRLF, after the last
\* data chunk; when it completed with another error the bytes read are the
\* data chunks alone and the reading ends with that error
C31_BodyTerminated ==
    (prod.returned /\ ReadToEnd) =>
        IF prod.ret \in {"nil", "EOF"}
        THEN Terminated /\ rdone = "EOF"
        ELSE wire = Frames(sent) /\ rdone = prod.ret

\* the stream function wrote, set a trailer and returned nil; the body read
\* ends with the zero-chunk, the trailer line and the final CRLF
C31_Witness ==
    /\ prod.returned /\ prod.ret = "nil" /\ rdone = "EOF"
    /\ sent = <<B_hello>>
    /\ DOMAIN trailers = {ToLower(T_B)}
    /\ wire = Frames(sent) \o <<"0">> \o CRLF \o TrailerLines(trailers, <<ToLower(T_B)>>) \o CRLF

\* the names a stream response declared, as the trailer collection keeps
\* names
Declared == {ToLower(prod.trailerList[i]) : i \in DOMAIN prod.trailerList}

\* C32: of the trailers the stream function set, only those whose names
\* the response declared are written after the zero-chunk; one set under
\* a name that was not declared is not written
C32_OnlyDeclaredTrailers ==
    rdone = "EOF" =>
        \E order \in Orders(DOMAIN trailers \cap Declared) :
            wire = Frames(sent) \o <<"0">> \o CRLF \o TrailerLines(trailers, order) \o CRLF

\* C37: the chunked reader has gone through the trailer collection only
\* when the stream function has returned, so that the setter cannot be
\* called any more; and what it made of the collection then, read or still
\* buffered, has every trailer that was set
C37_TrailersReadAfterReturn ==
    cr.eof =>
        /\ prod.returned
        /\ ~ENABLED StreamSetTrailer
        /\ \E ending \in Endings : wire \o cr.buf = Frames(sent) \o ending

\* two trailers were set, the last of them after a write, and the reader
\* has buffered the zero-chunk and both trailer lines
C37_Witness ==
    /\ cr.eof /\ prod.returned /\ rdone = "nil"
    /\ sent = <<B_hello>>
    /\ Cardinality(DOMAIN trailers) = 2
    /\ Len(cr.buf) > 0

\* C38: the task that runs the stream function of a streaming response
\* ends at some time, also when the body is not read to its end
C38_ProducerTerminates == <>prod.returned

----------------------------------------------------------------------------
\* Claims about the walk of the route tree and the names of its parameters.

\* the lookup found no handler
Missed == lookup.out.handler = NilHandler

\* C35: a walk that has taken a child of a node does not come back to the
\* node: with /u/a/b and /u/:i added and /u/a not added, /u/a finds no
\* handler although /u/:i would match it; with /u/a/b and /u/:j/k added,
\* /u/a/k finds none; and whenever the result is not what a search that
\* comes back to try the other children would find, it is a miss
C35_NoBacktracking ==
    lookup.done =>
        /\ ({P_u_a_b, P_u_i} \subseteq Added /\ P_u_a \notin Added /\ lookup.path = P_u_a
              => Missed)
        /\ ({P_u_a_b, P_u_j_k} \subseteq Added /\ lookup.path = P_u_a_k => Missed)
        /\ (lookup.out.handler # Match_Backtracking(trie, lookup.path).handler => Missed)

\* /u/a was matched in a tree with /u/a/b and /u/:i and without /u/a: the
\* walk took the static child a, which has no handler, where a search that
\* comes back would have found the route /u/:i
C35_Witness ==
    /\ lookup.done
    /\ {P_u_a_b, P_u_i} \subseteq Added /\ P_u_a \notin Added
    /\ lookup.path = P_u_a
    /\ Missed
    /\ Match_Backtracking(trie, lookup.path).handler = UserHandler(S_ANY, P_u_i)

\* the routes added, in the order of the calls, that have a parameter at
\* segment k of a node that the first k - 1 segments of p lead to
AtSlot(p, k) ==
    LET here(q) == /\ Len(Segs(q)) >= k
                   /\ SameSlots(p, q, k - 1)
                   /\ IsParam(Segs(q)[k])
    IN SelectSeq(tadded, here)

\* the name the slot of p's parameter at segment k was given last
LatestName(p, k) == Tail(Segs(AtSlot(p, k)[Len(AtSlot(p, k))])[k])

\* each parameter of p bound to the segment of r at its place, under the
\* name its slot was given last
RECURSIVE LatestBindings(_, _, _)
LatestBindings(r, p, k) ==
    IF k = 0 THEN <<>>
    ELSE IF IsParam(Segs(p)[k])
         THEN MapPut(LatestBindings(r, p, k - 1), LatestName(p, k), Segs(r)[k])
         ELSE LatestBindings(r, p, k - 1)

\* C36: a parameter slot has one name, the one given by the route added
\* last through it: a path that instantiates an added route with
\* parameters (and is not taken by a static child) is served by that
\* route with each parameter bound under the latest name of its slot,
\* whatever name the route itself gave; with /u/:i added and then /u/:j/k,
\* /u/7 is served by /u/:i with j bound to 7
C36_LastNameWins ==
    lookup.done =>
        /\ \A p \in Added :
              (HasParams(p) /\ Instantiates(lookup.path, p) /\ ~Shadowed(lookup.path, p))
                  => ServedBy(p, LatestBindings(lookup.path, p, Len(Segs(p))))
        /\ (tadded = <<P_u_i, P_u_j_k>> /\ lookup.path = P_u_7)
              => ServedBy(P_u_i, MapPut(<<>>, <<"j">>, <<"7">>))

\* /u/:j/k was added before /u/:i; /u/7/k is served by the first under the
\* name the second gave the slot
C36_Witness ==
    /\ lookup.done
    /\ tadded = <<P_u_j_k, P_u_i>>
    /\ lookup.path = P_u_7_k
    /\ ServedBy(P_u_j_k, MapPut(<<>>, <<"i">>, <<"7">>))

\* C40: matching a path changes nothing in the route tree: a step that
\* matches leaves every node of the tree as it was
C40_MatchLeavesTree == [][lookup'.done => trie' = trie]_vars

\* a path that no route serves was matched, through nodes that have static
\* and parameter children, and the tree is the one the routes built
C40_Witness ==
    /\ lookup.done
    /\ tadded = <<P_u_a_b, P_u_j_k, P_s_p>>
    /\ lookup.path = P_u_a_k
    /\ Missed
    /\ trie = AddRoute(AddRoute(AddRoute(NewTrieNode, P_u_a_b, UserHandler(S_ANY, P_u_a_b)),
                                P_u_j_k, UserHandler(S_ANY, P_u_j_k)),
                       P_s_p, UserHandler(S_ANY, P_s_p))

----------------------------------------------------------------------------
\* Claims about what the router does with a request.

RECURSIVE PathPart(_)
PathPart(target) ==
    IF target = <<>> \/ Head(target) = "?" THEN <<>>
    ELSE <<Head(target)>> \o PathPart(Tail(target))

\* C39: a request is routed by the path part of its target: when a route
\* is registered for the method of the request and the path part of its
\* target, query or no query, the handler of that route is the one run
C39_RoutedByPath ==
    (/\ Dispatched
     /\ ~PreflightRequest
     /\ <<rreq.Method, PathPart(rreq.Target)>> \in routes
     /\ IsStaticRoute(PathPart(rreq.Target))) =>
        /\ rres.kind = "response"
        /\ rres.ran = <<UserHandler(rreq.Method, PathPart(rreq.Target))>>

----------------------------------------------------------------------------
\* Claims about closing the server.

\* C34: Close sets the closed mark before it closes the listener, so
\* however its two statements fall between those of the accept loop, a
\* loop that was stopped by the closed listener returns no error; no
\* connection is accepted once Close has returned; and Close touches no
\* connection: one that is being handled can still write its response
C34_ServerClose ==
    /\ srv.listener = "closed" => srv.closed
    /\ (lpc = "returned" /\ lcause = "closed") => lret = "nil"
    /\ \A i \in DOMAIN accepted : ~accepted[i].late
    /\ cpc = "returned" => ~ENABLED AcceptConn
    /\ (\E i \in DOMAIN accepted : accepted[i].state = "handling") => ENABLED HandleWritten

\* Close returned while one connection was being handled and another had
\* been answered; the loop found the listener closed and returned nil
C34_Witness ==
    /\ cpc = "returned"
    /\ lpc = "returned" /\ lcause = "closed" /\ lret = "nil"
    /\ Len(accepted) = 2
    /\ accepted[1].state = "written"
    /\ accepted[2].state = "handling"

====
